---- MODULE Spec2Model ----
(***************************************************************************)
(* Model of FCDR_HIRS/effects.py: the Effect class, its validated          *)
(* properties, the class-level registry Effect._all_effects and the        *)
(* snapshot accessor effects().                                            *)
(*                                                                         *)
(* Python values are modelled as strings so that every value of a field    *)
(* is comparable with every other: NONE is Python's None, INT5 an int,     *)
(* UNHASHABLE a list.  Objects live in `heap`, indexed by identity; the    *)
(* Rmodel instances live in `rmodels`, indexed by identity.  `call` is the  *)
(* activation of Effect.__init__ that is under way, and `logging` what     *)
(* common.set_logger reads and writes: the loggers and its module flag.    *)
(***************************************************************************)
EXTENDS Integers, Sequences, FiniteSets, TLC

VARIABLES heap, all_effects, snap, last, inp, rmodels, call, logging

vars == <<heap, all_effects, snap, last, inp, rmodels, call, logging>>

(***************************************************************************)
(* Bounds of the model.                                                    *)
(***************************************************************************)
MaxObj == 4      \* object identities available (live effects and copies)
MaxEff == 2      \* Effect objects constructed and kept by the caller
MaxKw == 2       \* keywords passed to one Effect(**kwargs) call
MaxSnapOps == 2  \* changes a caller makes to one mapping effects() returned
MaxChan == 2     \* size of calibrated_channel in a dataset
MaxPos == 2      \* size of scanpos in a dataset
MaxLines == 3    \* size of scanline_earth in a dataset
MaxTime == 3     \* the time coordinates of a dataset are 1..MaxTime
MaxSampling == 2 \* sampling_l and sampling_e are 0..MaxSampling
MaxBag == 5      \* keywords of the construction that is followed step by step
MaxAssign == 3   \* assignments made one after another to one effect
MaxCalls == 3    \* calls of set_logger in one process

(***************************************************************************)
(* Python values.                                                          *)
(***************************************************************************)
NONE == "<None>"
INT5 == "<int 5>"
UNHASHABLE == "<list>"
NoExc == "-"

IsStr(x) == x \notin {NONE, INT5, UNHASHABLE}

\* effects.py:25-30  CorrelationType / CorrelationScale field order
CorrelationType == <<"within_scanline", "between_scanlines", "between_orbits",
                     "across_time">>

Axes == 1..Len(CorrelationType)

\* effects.py:269-274
valid_correlation_types ==
    {"undefined", "random", "rectangular_absolute", "triangular_relative",
     "truncated_gaussian_relative", "repeated_rectangles",
     "repeated_truncated_gaussians"}

\* effects.py:267-268, 293
Undefined4 == [a \in Axes |-> "undefined"]
Zero4 == [a \in Axes |-> "0"]

\* effects.py:373-377
random4 == [a \in Axes |-> "random"]
systematic4 == [a \in Axes |-> "rectangular_absolute"]
inf4 == [a \in Axes |-> "inf"]

\* numbers.Number instances and numpy.ndarray instances among the slot values;
\* "ndarray" is an array of more than one element (one scale per channel)
Numbers == {"0", "1000", "inf"}
NdArrays == {"ndarray"}

\* effects.py:22-24
WARNING == "VERY EARLY TRIAL VERSION! DO NOT USE THE CONTENTS OF THIS PRODUCT FOR ANY PURPOSE UNDER ANY CIRCUMSTANCES! This serves exclusively as a file format demonstration!"

(***************************************************************************)
(* The labelled array stored as a magnitude.  A name is the sequence of    *)
(* the pieces it is put together from (<<>> is no name); kind NONE is the  *)
(* class default _magnitude = None.                                        *)
(***************************************************************************)
NoMagnitude ==
    [kind |-> NONE, name |-> <<>>, units |-> NONE, long_name |-> NONE,
     short_name |-> NONE, parameter |-> NONE, pdf_shape |-> NONE,
     channels_affected |-> NONE, correlation_type |-> Undefined4,
     correlation_scale |-> Zero4, channel_correlations |-> NONE,
     sensitivity_coefficient |-> <<>>, WARNING |-> NONE, encoding |-> {}]

\* effects.py:163-172, 203, 267, 293: the class-level defaults
ClassDefaults ==
    [name |-> NONE, description |-> NONE, parameter |-> NONE, unit |-> NONE,
     pdf_shape |-> "Gaussian", channels_affected |-> "all",
     channel_correlations |-> NONE, dimensions |-> NONE, rmodel |-> NONE,
     _magnitude |-> NoMagnitude, _corr_type |-> Undefined4,
     _corr_scale |-> Zero4]

PlainAttrs == {"name", "description", "parameter", "unit", "pdf_shape",
               "channels_affected", "channel_correlations", "dimensions",
               "rmodel"}
PropertyAttrs == {"magnitude", "correlation_type", "correlation_scale"}
DeclaredAttrs == PlainAttrs \cup PropertyAttrs

\* The outcome of a call: the object afterwards, the exception raised (NoExc
\* if none) and the value the exception's message names.
Outcome(e, exc, named) == [obj |-> e, exc |-> exc, named |-> named]

(***************************************************************************)
(* str.format with the "{:s}" conversion, as Python evaluates it: a str is *)
(* inserted as it is; None and a list have no __format__ that accepts "s"  *)
(* (TypeError); an int rejects the format code (ValueError).               *)
(***************************************************************************)
FormatS(x) ==
    IF IsStr(x) THEN [exc |-> NoExc, text |-> x]
    ELSE IF x = INT5 THEN [exc |-> "ValueError", text |-> NONE]
    ELSE [exc |-> "TypeError", text |-> NONE]

\* "{:s}".format(type(v)): a class never accepts the "s" format code
FormatSType == [exc |-> "TypeError", text |-> NONE]

\* The value given to a 4-tuple property: vals is the sequence given and
\* typed says whether it already is the namedtuple of the property.
TupleValue(typed, vals) == [typed |-> typed, vals |-> vals]

Min(S) == CHOOSE x \in S : \A y \in S : x <= y

Range(f) == {f[k] : k \in DOMAIN f}

\* A membership test against a vocabulary that lost its last entry.
InVocabularyShort(x) == x \in valid_correlation_types \ {"repeated_truncated_gaussians"}

\* The membership test of the correlation_type setter (effects.py:287).
InVocabulary(x) == x \in valid_correlation_types

\* A setter that stores the tuple before it validates the slots.
SetCorrelationTypeStoreFirst(e, v) ==
    IF ~v.typed /\ Len(v.vals) # Len(CorrelationType)
    THEN Outcome(e, "TypeError", NONE)
    ELSE LET bad == {a \in Axes : ~InVocabulary(v.vals[a])}
             stored == [e EXCEPT !._corr_type = v.vals]
         IN  IF bad = {} THEN Outcome(stored, NoExc, NONE)
             ELSE Outcome(stored, "ValueError", v.vals[Min(bad)])

\* effects.py:282-291  Effect.correlation_type (setter)
SetCorrelationType(e, v) ==
    IF ~v.typed /\ Len(v.vals) # Len(CorrelationType)
    THEN Outcome(e, "TypeError", NONE)            \* CorrelationType(*v)
    ELSE LET bad == {a \in Axes : ~InVocabulary(v.vals[a])}
         IN  IF bad = {}
             THEN Outcome([e EXCEPT !._corr_type = v.vals], NoExc, NONE)
             ELSE LET f == FormatS(v.vals[Min(bad)])
                  IN  IF f.exc = NoExc
                      THEN Outcome(e, "ValueError", f.text)
                      ELSE Outcome(e, f.exc, NONE)

\* A type test that only rejects None.
IsNumericNotNone(x) == x # NONE

\* isinstance(x, (numbers.Number, numpy.ndarray))  (effects.py:305)
IsNumeric(x) == x \in Numbers \cup NdArrays

\* effects.py:300-308  Effect.correlation_scale (setter)
SetCorrelationScale(e, v) ==
    IF ~v.typed /\ Len(v.vals) # Len(CorrelationType)
    THEN Outcome(e, "TypeError", NONE)            \* CorrelationScale(*v)
    ELSE LET bad == {a \in Axes : ~IsNumeric(v.vals[a])}
         IN  IF bad = {}
             THEN Outcome([e EXCEPT !._corr_scale = v.vals], NoExc, NONE)
             ELSE \* raise TypeError("... found {:s}".format(type(v))): the
                  \* message itself cannot be formatted, which is a TypeError too
                  Outcome(e, FormatSType.exc, NONE)

(***************************************************************************)
(* Collaborators of effects.py that are not part of it: the symbol table   *)
(* of measurement_equation and the encoding tables of _fcdr_defs.          *)
(***************************************************************************)
\* str.startswith("O_") on the names of the model
StartsWithO(n) == n \in {"O_TPRT", "O_Re", "O_TIWCT"}

\* keys of _fcdr_defs.FCDR_data_vars_props and FCDR_uncertainty_encodings;
\* "a_2" is a key of the first, or effects.py:497 would fail at import
FCDR_data_vars_props == {"C_IWCT", "a_2"}
FCDR_uncertainty_encodings == {"O_TPRT"}

\* symbols of the measurement equation: those the registry is keyed by in
\* the specifications, and the whole table
Symbols == {"C_E", "O_Re"}
meq_symbols ==
    Symbols \cup {"C_s", "C_IWCT", "R_selfE", "O_TPRT", "nustar", "C_PRT",
                  "O_TIWCT", "d_PRT", "a_2", "R_refl", "alpha", "beta", "fstar"}

\* str(x)
Str(x) ==
    IF x = NONE THEN "None"
    ELSE IF x = INT5 THEN "5"
    ELSE IF x = UNHASHABLE THEN "[1]"
    ELSE x

\* effects.py:310-318  Effect.sensitivity: meq.calc_sensitivity_coefficient
\* looks up anything that is not a symbol in its symbol table
Sensitivity(e) ==
    IF e.parameter \in meq_symbols
    THEN [exc |-> NoExc, expr |-> [d |-> "R_e", by |-> e.parameter]]
    ELSE IF e.parameter = UNHASHABLE
    THEN [exc |-> "TypeError", expr |-> <<>>]
    ELSE [exc |-> "KeyError", expr |-> <<>>]

\* str() of the expression sensitivity() returns, as the pieces of the text
StrExpr(expr) == <<"d", expr.d, "/d", expr.by>>

\* A value given to magnitude: isDA says whether it is an xarray.DataArray;
\* u is the unit of a unit-carrying number (da.u), NONE without one; name,
\* units and long_name are those of a DataArray given; same says whether
\* the DataArray given is the object the effect holds as its magnitude.
MagnitudeValue(isDA, u, name, units, long_name) ==
    [isDA |-> isDA, u |-> u, name |-> name, units |-> units,
     long_name |-> long_name, same |-> FALSE]

\* effects.py:217: the object the getter returns, given back to the setter
\* (e.magnitude = e.magnitude)
OwnMagnitude ==
    [MagnitudeValue(TRUE, NONE, <<>>, NONE, NONE) EXCEPT !.same = TRUE]

\* effects.py:221-229: xarray.DataArray(da) and the unit it carried
AsDataArray(da) ==
    IF da.isDA
    THEN [NoMagnitude EXCEPT !.kind = "DataArray", !.name = da.name,
                             !.units = da.units, !.long_name = da.long_name]
    ELSE [NoMagnitude EXCEPT !.kind = "DataArray", !.name = <<>>,
                             !.units = da.u]

\* A metadata block without the correlation scales.
StampWithoutScale(e, da, name, sens) ==
    [da EXCEPT
        !.name = name,
        !.long_name = IF da.long_name = NONE THEN e.description
                                             ELSE da.long_name,
        !.short_name = e.name,
        !.parameter = Str(e.parameter),
        !.pdf_shape = e.pdf_shape,
        !.channels_affected = e.channels_affected,
        !.correlation_type = e._corr_type,
        !.channel_correlations = e.channel_correlations,
        !.sensitivity_coefficient = sens,
        !.WARNING = WARNING]

\* effects.py:245-258: the metadata block
Stamp(e, da, name, sens) ==
    [da EXCEPT
        !.name = name,
        !.long_name = IF da.long_name = NONE THEN e.description
                                             ELSE da.long_name,
        !.short_name = e.name,
        !.parameter = Str(e.parameter),
        !.pdf_shape = e.pdf_shape,
        !.channels_affected = e.channels_affected,
        !.correlation_type = e._corr_type,
        !.correlation_scale = e._corr_scale,
        !.channel_correlations = e.channel_correlations,
        !.sensitivity_coefficient = sens,
        !.WARNING = WARNING]

\* effects.py:260-262: the export encodings merged into da.encoding
Encoding(n) ==
    (IF n \in FCDR_data_vars_props THEN {"FCDR_data_vars_props"} ELSE {})
    \cup (IF n \in FCDR_uncertainty_encodings
          THEN {"FCDR_uncertainty_encodings"} ELSE {})

\* effects.py:231-264: the setter from the DataArray da on; f is the name
\* formatted and sens the sensitivity coefficient, each with the exception
\* it raises.  The attributes are written on da step by step, so that when
\* da is the object the effect holds (same), what was written before an
\* exception is on the magnitude of the effect: nothing if the name cannot
\* be formatted (234), all but the sensitivity coefficient and the warning
\* if sensitivity() raises (257), everything after that.
WriteMagnitude(e, same, da, f, sens) ==
    LET exc == IF da.name = <<>> /\ f.exc # NoExc THEN f.exc
               ELSE IF sens.exc # NoExc THEN sens.exc
               ELSE IF ~IsStr(e.name)              \* self.name.startswith
               THEN "AttributeError"
               ELSE IF ~StartsWithO(e.name) /\ e.name \notin FCDR_data_vars_props
               THEN "KeyError"
               ELSE NoExc
        st == Stamp(e, da, IF da.name = <<>> THEN <<"u_", f.text>> ELSE da.name,
                    IF sens.exc # NoExc THEN da.sensitivity_coefficient
                    ELSE StrExpr(sens.expr))
    IN  Outcome(
          IF exc = NoExc
          THEN [e EXCEPT !._magnitude =
                   [st EXCEPT !.encoding = @ \cup Encoding(e.name)]]
          ELSE IF ~same \/ (da.name = <<>> /\ f.exc # NoExc) THEN e
          ELSE [e EXCEPT !._magnitude =
                   [st EXCEPT !.WARNING = IF sens.exc # NoExc THEN da.WARNING
                                         ELSE @]],
          exc, IF exc = "KeyError" /\ sens.exc = NoExc THEN e.name ELSE NONE)

\* effects.py:219-264  Effect.magnitude (setter).  A DataArray given is
\* not copied (221).
SetMagnitude(e, v) ==
    WriteMagnitude(e, v.same, IF v.same THEN e._magnitude ELSE AsDataArray(v),
                   FormatS(e.name), Sensitivity(e))

\* A __setattr__ without the hasattr test: an unknown name is stored.
SetAttrOpen(e, k, v) ==
    IF k = "magnitude" THEN SetMagnitude(e, v)
    ELSE IF k = "correlation_type" THEN SetCorrelationType(e, v)
    ELSE IF k = "correlation_scale" THEN SetCorrelationScale(e, v)
    ELSE Outcome([i \in DOMAIN e \cup {k} |-> IF i = k THEN v ELSE e[i]],
                 NoExc, NONE)

\* effects.py:190-193  Effect.__setattr__
SetAttr(e, k, v) ==
    IF k \notin DeclaredAttrs                      \* not hasattr(self, k)
    THEN Outcome(e, "AttributeError", k)
    ELSE IF k = "magnitude" THEN SetMagnitude(e, v)
    ELSE IF k = "correlation_type" THEN SetCorrelationType(e, v)
    ELSE IF k = "correlation_scale" THEN SetCorrelationScale(e, v)
    ELSE Outcome([e EXCEPT ![k] = v], NoExc, NONE)

\* effects.py:183-185: later_pairs.pop() takes the pair appended last
RECURSIVE InitLater(_, _)
InitLater(e, later) ==
    IF later = <<>> THEN Outcome(e, NoExc, NONE)
    ELSE LET p == later[Len(later)]
             r == SetAttr(e, p.k, p.v)
         IN  IF r.exc # NoExc THEN r
             ELSE InitLater(r.obj, SubSeq(later, 1, Len(later) - 1))

\* effects.py:175-182: kwargs.popitem() takes the keyword given last
RECURSIVE InitPlain(_, _, _)
InitPlain(e, kwargs, later) ==
    IF kwargs = <<>> THEN InitLater(e, later)
    ELSE LET p == kwargs[Len(kwargs)]
             rest == SubSeq(kwargs, 1, Len(kwargs) - 1)
         IN  IF p.k \notin DeclaredAttrs           \* getattr(self.__class__, k)
             THEN Outcome(e, "AttributeError", p.k)
             ELSE IF p.k \in PropertyAttrs
             THEN InitPlain(e, rest, Append(later, p))
             ELSE LET r == SetAttr(e, p.k, p.v)
                  IN  IF r.exc # NoExc THEN r
                      ELSE InitPlain(r.obj, rest, later)

EmptyMap == [k \in {} |-> {}]

\* A registration that creates the set of the key on every call.
RegisterReplacing(reg, e, id) ==
    [k \in DOMAIN reg \cup {e.parameter} |->
        IF k = e.parameter THEN {id} ELSE reg[k]]

\* A registration keyed by the effect's name.
RegisterByName(reg, e, id) ==
    IF e.name \in DOMAIN reg
    THEN [reg EXCEPT ![e.name] = @ \cup {id}]
    ELSE [k \in DOMAIN reg \cup {e.name} |->
             IF k = e.name THEN {id} ELSE reg[k]]

\* A registration under the key None, whatever the parameter.
RegisterUnkeyed(reg, e, id) ==
    IF NONE \in DOMAIN reg
    THEN [reg EXCEPT ![NONE] = @ \cup {id}]
    ELSE [k \in DOMAIN reg \cup {NONE} |-> IF k = NONE THEN {id} ELSE reg[k]]

\* effects.py:186-188: the registration at the end of __init__
Register(reg, e, id) ==
    IF e.parameter \in DOMAIN reg
    THEN [reg EXCEPT ![e.parameter] = @ \cup {id}]
    ELSE [k \in DOMAIN reg \cup {e.parameter} |->
             IF k = e.parameter THEN {id} ELSE reg[k]]

\* An __init__ that registers the object whether or not a setter raised.
EffectInitRegisterAlways(reg, kwargs, id) ==
    LET r == InitPlain(ClassDefaults, kwargs, <<>>)
    IN  IF r.obj.parameter = UNHASHABLE
        THEN [obj |-> r.obj, exc |-> "TypeError", reg |-> reg]
        ELSE [obj |-> r.obj, exc |-> r.exc, reg |-> Register(reg, r.obj, id)]

\* effects.py:174-188  Effect.__init__ on the new object `id`
EffectInit(reg, kwargs, id) ==
    LET r == InitPlain(ClassDefaults, kwargs, <<>>)
    IN  IF r.exc # NoExc THEN [obj |-> r.obj, exc |-> r.exc, reg |-> reg]
        ELSE IF r.obj.parameter = UNHASHABLE       \* key test hashes it
        THEN [obj |-> r.obj, exc |-> "TypeError", reg |-> reg]
        ELSE [obj |-> r.obj, exc |-> NoExc, reg |-> Register(reg, r.obj, id)]

(***************************************************************************)
(* Classification queries.                                                 *)
(***************************************************************************)
\* A test that is satisfied by one random axis.
is_independent_any(e) == \E a \in Axes : e._corr_type[a] = "random"

\* effects.py:320-324  Effect.is_independent
is_independent(e) == \A a \in Axes : e._corr_type[a] = "random"

\* The outcome of a query: the value returned, or the exception raised.
Answer(exc, ret) == [exc |-> exc, ret |-> ret]
Bool(b) == IF b THEN "True" ELSE "False"

\* all(numpy.isinf(i) for i in ...) takes the truth value of numpy.isinf(i):
\* that of a number is whether it is infinite, and an array of more than one
\* element has none (ValueError: the truth value ... is ambiguous)
IsInfTruth(x) ==
    IF x \in NdArrays THEN Answer("ValueError", "-")
    ELSE Answer(NoExc, Bool(x = "inf"))

\* effects.py:326-331  Effect.is_common: the scales are looked at, in order
\* and up to the first that is not infinite, only if the four types match
is_common(e) ==
    IF \E a \in Axes : e._corr_type[a] # "rectangular_absolute"
    THEN Answer(NoExc, "False")
    ELSE LET rest == {a \in Axes : IsInfTruth(e._corr_scale[a]) # Answer(NoExc, "True")}
         IN  IF rest = {} THEN Answer(NoExc, "True")
             ELSE IsInfTruth(e._corr_scale[Min(rest)])

\* effects.py:333-337  Effect.is_structured
is_structured(e) ==
    IF is_independent(e) THEN Answer(NoExc, "False")
    ELSE LET c == is_common(e)
         IN  IF c.exc # NoExc THEN c
             ELSE Answer(NoExc, Bool(c.ret = "False"))

(***************************************************************************)
(* The Rmodel strategies (effects.py:32-136).  A dataset is what the       *)
(* strategies read of it: the sizes of its dimensions and the coordinate   *)
(* values of scanline_earth and calibration_cycle (times, as integers).    *)
(* An array is its shape and its entries, indexed from 1.                  *)
(***************************************************************************)
\* effects.py:82-136: the singletons; none of them has an instance attribute
NoAttrs == [k \in {} |-> NONE]
RmodelInstances ==
    [r \in {"rmodel_calib", "rmodel_random", "rmodel_common",
            "rmodel_periodicerror", "rmodel_rself"} |-> NoAttrs]

\* the dimensions and coordinates an Rmodel reads of a dataset
Dataset(n_c, n_e, lines, cycles) ==
    [dims |-> [calibrated_channel |-> n_c, scanline_earth |-> Len(lines),
               scanpos |-> n_e, calibration_cycle |-> Len(cycles)],
     coords |-> [scanline_earth |-> lines, calibration_cycle |-> cycles]]

\* xarray.Dataset(): no dimension, no coordinate
EmptyDataset == [dims |-> NoAttrs, coords |-> NoAttrs]

\* ds.dims[...] and ds[...] raise KeyError for a name the dataset lacks
HasDims(ds) ==
    {"calibrated_channel", "scanline_earth", "scanpos"} \subseteq DOMAIN ds.dims
HasCoords(ds) ==
    {"scanline_earth", "calibration_cycle"} \subseteq DOMAIN ds.coords

\* math.ceil(n/s) for n >= 0 and s >= 1
Ceil(n, s) == (n + s - 1) \div s

Index2(shape) == (1..shape[1]) \X (1..shape[2])
Index4(shape) == (1..shape[1]) \X (1..shape[2]) \X (1..shape[3]) \X (1..shape[4])

\* numpy.eye(n, dtype="f4")
eye(n) ==
    [shape |-> <<n, n>>,
     at |-> [i \in Index2(<<n, n>>) |-> IF i[1] = i[2] THEN 1 ELSE 0]]

\* numpy.ones(shape, dtype="f4") of four dimensions
ones(shape) == [shape |-> shape, at |-> [i \in Index4(shape) |-> 1]]

\* numpy.tile(M, [n1, n2, 1, 1]) of a matrix M
tile(M, n1, n2) ==
    LET shape == <<n1, n2, M.shape[1], M.shape[2]>>
    IN  [shape |-> shape,
         at |-> [i \in Index4(shape) |-> M.at[<<i[3], i[4]>>]]]

\* A subsampling that aggregates: the least entry of each s by s block.
StrideAggregating(M, s) ==
    LET shape == <<Ceil(M.shape[1], s), Ceil(M.shape[2], s)>>
        block(a, n) == {k \in 1..n : (k - 1) \div s = a - 1}
    IN  [shape |-> shape,
         at |-> [i \in Index2(shape) |->
                    Min({M.at[<<k, l>>] : k \in block(i[1], M.shape[1]),
                                          l \in block(i[2], M.shape[2])})]]

\* M[::s, ::s] for s >= 1: every s-th row and column, from the first
Stride(M, s) ==
    LET shape == <<Ceil(M.shape[1], s), Ceil(M.shape[2], s)>>
    IN  [shape |-> shape,
         at |-> [i \in Index2(shape) |->
                    M.at[<<1 + (i[1] - 1) * s, 1 + (i[2] - 1) * s>>]]]

\* what a method of an Rmodel leaves and gives: the attributes of the
\* instance afterwards, the exception raised and the array returned
Returned(self, exc, ret) == [self |-> self, exc |-> exc, ret |-> ret]

\* A count of the calibration cycles that do not follow the scanline.
ccid_not_after(ds) ==
    LET lines == ds.coords.scanline_earth
        cycles == ds.coords.calibration_cycle
    IN  [l \in DOMAIN lines |->
            Cardinality({c \in DOMAIN cycles : lines[l] >= cycles[c]})]

\* effects.py:74: (ds["scanline_earth"] > ds["calibration_cycle"])
\*                    .sum("calibration_cycle").values
ccid(ds) ==
    LET lines == ds.coords.scanline_earth
        cycles == ds.coords.calibration_cycle
    IN  [l \in DOMAIN lines |->
            Cardinality({c \in DOMAIN cycles : lines[l] > cycles[c]})]

\* effects.py:53-63  RModelCalib.calc_R_eΛlkx
RModelCalib_calc_R_eLlkx(self, ds, sampling_l, sampling_e) ==
    IF ~HasDims(ds) THEN Returned(self, "KeyError", "-")
    ELSE IF sampling_l = 0 \/ sampling_e = 0
    THEN Returned(self, "ZeroDivisionError", "-")
    ELSE Returned(self, NoExc,
            ones(<<ds.dims.calibrated_channel,
                   Ceil(ds.dims.scanline_earth, sampling_l),
                   Ceil(ds.dims.scanpos, sampling_e),
                   Ceil(ds.dims.scanpos, sampling_e)>>))

\* A calc_R_lΛekx that keeps the cycle counts on the instance.
RModelCalib_calc_R_lLekx_caching(self, ds, sampling_l, sampling_e) ==
    IF ~HasCoords(ds) THEN Returned(self, "KeyError", "-")
    ELSE LET n == Len(ds.coords.scanline_earth)
             R == [shape |-> <<n, n>>,
                   at |-> [i \in Index2(<<n, n>>) |->
                             IF ccid(ds)[i[1]] = ccid(ds)[i[2]] THEN 1 ELSE 0]]
             kept == [k \in {"ccid"} |-> ccid(ds)]
         IN  IF sampling_l = 0 THEN Returned(kept, "ValueError", "-")
             ELSE IF sampling_e = 0 THEN Returned(kept, "ZeroDivisionError", "-")
             ELSE Returned(kept, NoExc,
                     tile(Stride(R, sampling_l), ds.dims.calibrated_channel,
                          Ceil(ds.dims.scanpos, sampling_e)))

\* effects.py:65-80  RModelCalib.calc_R_lΛekx; a slice step of zero is a
\* ValueError, raised before the division by sampling_e
RModelCalib_calc_R_lLekx(self, ds, sampling_l, sampling_e) ==
    IF ~HasCoords(ds) THEN Returned(self, "KeyError", "-")
    ELSE LET n == Len(ds.coords.scanline_earth)
             R == [shape |-> <<n, n>>,
                   at |-> [i \in Index2(<<n, n>>) |->
                             IF ccid(ds)[i[1]] = ccid(ds)[i[2]] THEN 1 ELSE 0]]
         IN  IF sampling_l = 0 THEN Returned(self, "ValueError", "-")
             ELSE IF sampling_e = 0 THEN Returned(self, "ZeroDivisionError", "-")
             ELSE Returned(self, NoExc,
                     tile(Stride(R, sampling_l), ds.dims.calibrated_channel,
                          Ceil(ds.dims.scanpos, sampling_e)))

\* A calc_R_eΛlkx that rounds the subsampled sizes down.
RModelRandom_calc_R_eLlkx_floor(self, ds, sampling_l, sampling_e) ==
    IF ~HasDims(ds) THEN Returned(self, "KeyError", "-")
    ELSE IF sampling_l = 0 \/ sampling_e = 0
    THEN Returned(self, "ZeroDivisionError", "-")
    ELSE Returned(self, NoExc,
            tile(eye(ds.dims.scanpos \div sampling_e),
                 ds.dims.calibrated_channel,
                 ds.dims.scanline_earth \div sampling_l))

\* effects.py:85-95  RModelRandom.calc_R_eΛlkx
RModelRandom_calc_R_eLlkx(self, ds, sampling_l, sampling_e) ==
    IF ~HasDims(ds) THEN Returned(self, "KeyError", "-")
    ELSE IF sampling_l = 0 \/ sampling_e = 0
    THEN Returned(self, "ZeroDivisionError", "-")
    ELSE Returned(self, NoExc,
            tile(eye(Ceil(ds.dims.scanpos, sampling_e)),
                 ds.dims.calibrated_channel,
                 Ceil(ds.dims.scanline_earth, sampling_l)))

\* effects.py:97-107  RModelRandom.calc_R_lΛekx
RModelRandom_calc_R_lLekx(self, ds, sampling_l, sampling_e) ==
    IF ~HasDims(ds) THEN Returned(self, "KeyError", "-")
    ELSE IF sampling_l = 0 \/ sampling_e = 0
    THEN Returned(self, "ZeroDivisionError", "-")
    ELSE Returned(self, NoExc,
            tile(eye(Ceil(ds.dims.scanline_earth, sampling_l)),
                 ds.dims.calibrated_channel,
                 Ceil(ds.dims.scanpos, sampling_e)))

\* A Common model whose matrix is not there yet.
RModelCommon_not_implemented(self, ds, sampling_l, sampling_e) ==
    Returned(self, "NotImplementedError", "-")

\* effects.py:112-115  RModelCommon.calc_R_eΛlkx
RModelCommon_calc_R_eLlkx(self, ds, sampling_l, sampling_e) ==
    Returned(self, "ValueError", "-")

\* effects.py:116  calc_R_lΛekx = calc_R_eΛlkx
RModelCommon_calc_R_lLekx(self, ds, sampling_l, sampling_e) ==
    RModelCommon_calc_R_eLlkx(self, ds, sampling_l, sampling_e)

\* effects.py:120-126  RModelPeriodicError
RModelPeriodicError_calc_R_eLlkx(self, ds, sampling_l, sampling_e) ==
    Returned(self, "NotImplementedError", "-")
RModelPeriodicError_calc_R_lLekx(self, ds, sampling_l, sampling_e) ==
    Returned(self, "NotImplementedError", "-")

\* effects.py:129-135  RModelRSelf
RModelRSelf_calc_R_eLlkx(self, ds, sampling_l, sampling_e) ==
    Returned(self, "NotImplementedError", "-")
RModelRSelf_calc_R_lLekx(self, ds, sampling_l, sampling_e) ==
    Returned(self, "NotImplementedError", "-")

\* the instance copy.deepcopy makes of an Rmodel instance: a new object of
\* the same class (the classes define neither __deepcopy__ nor __reduce__)
CopyOf(r) ==
    CASE r = "rmodel_calib" -> "copy of rmodel_calib"
      [] r = "rmodel_random" -> "copy of rmodel_random"
      [] r = "rmodel_common" -> "copy of rmodel_common"
      [] r = "rmodel_periodicerror" -> "copy of rmodel_periodicerror"
      [] r = "rmodel_rself" -> "copy of rmodel_rself"

\* the module-level instance an instance is, or is a copy of
OriginalOf(x) ==
    IF x \in DOMAIN RmodelInstances THEN x
    ELSE CHOOSE r \in DOMAIN RmodelInstances : CopyOf(r) = x

\* self.rmodel.calc_R_eΛlkx / calc_R_lΛekx: the method of the class of the
\* instance r
Rmodel_calc_R_eLlkx(r, self, ds, sampling_l, sampling_e) ==
    CASE OriginalOf(r) = "rmodel_calib" ->
            RModelCalib_calc_R_eLlkx(self, ds, sampling_l, sampling_e)
      [] OriginalOf(r) = "rmodel_random" ->
            RModelRandom_calc_R_eLlkx(self, ds, sampling_l, sampling_e)
      [] OriginalOf(r) = "rmodel_common" ->
            RModelCommon_calc_R_eLlkx(self, ds, sampling_l, sampling_e)
      [] OriginalOf(r) = "rmodel_periodicerror" ->
            RModelPeriodicError_calc_R_eLlkx(self, ds, sampling_l, sampling_e)
      [] OriginalOf(r) = "rmodel_rself" ->
            RModelRSelf_calc_R_eLlkx(self, ds, sampling_l, sampling_e)

Rmodel_calc_R_lLekx(r, self, ds, sampling_l, sampling_e) ==
    CASE OriginalOf(r) = "rmodel_calib" ->
            RModelCalib_calc_R_lLekx(self, ds, sampling_l, sampling_e)
      [] OriginalOf(r) = "rmodel_random" ->
            RModelRandom_calc_R_lLekx(self, ds, sampling_l, sampling_e)
      [] OriginalOf(r) = "rmodel_common" ->
            RModelCommon_calc_R_lLekx(self, ds, sampling_l, sampling_e)
      [] OriginalOf(r) = "rmodel_periodicerror" ->
            RModelPeriodicError_calc_R_lLekx(self, ds, sampling_l, sampling_e)
      [] OriginalOf(r) = "rmodel_rself" ->
            RModelRSelf_calc_R_lLekx(self, ds, sampling_l, sampling_e)

\* what a query of an Effect leaves and gives: the effect and the Rmodel
\* instances afterwards, the exception raised and the value returned
Queried(e, rm, exc, ret) == [obj |-> e, rmodels |-> rm, exc |-> exc, ret |-> ret]

\* effects.py:339-348  Effect.calc_R_eΛlkx; an rmodel that is None (or any
\* value without the method) is an AttributeError
calc_R_eLlkx(e, rm, ds, sampling_l, sampling_e) ==
    IF e.rmodel \notin DOMAIN rm THEN Queried(e, rm, "AttributeError", "-")
    ELSE LET r == Rmodel_calc_R_eLlkx(e.rmodel, rm[e.rmodel], ds,
                                      sampling_l, sampling_e)
         IN  Queried(e, [rm EXCEPT ![e.rmodel] = r.self], r.exc, r.ret)

\* A calc_R_lΛekx that calls the other method of the rmodel.
calc_R_lLekx_other(e, rm, ds, sampling_l, sampling_e) ==
    calc_R_eLlkx(e, rm, ds, sampling_l, sampling_e)

\* effects.py:350-356  Effect.calc_R_lΛekx
calc_R_lLekx(e, rm, ds, sampling_l, sampling_e) ==
    IF e.rmodel \notin DOMAIN rm THEN Queried(e, rm, "AttributeError", "-")
    ELSE LET r == Rmodel_calc_R_lLekx(e.rmodel, rm[e.rmodel], ds,
                                      sampling_l, sampling_e)
         IN  Queried(e, [rm EXCEPT ![e.rmodel] = r.self], r.exc, r.ret)

\* A calc_R_cΛpx that rejects as the Common model does.
calc_R_cLpx_rejecting(e, rm) == Queried(e, rm, "ValueError", "-")

\* effects.py:358-362  Effect.calc_R_cΛpx
calc_R_cLpx(e, rm) == Queried(e, rm, "NotImplementedError", "-")

\* The classes a Python exception is an instance of: what an except clause
\* naming one of them catches.
Bases(exc) ==
    {exc, "Exception"} \cup
    (CASE exc = "NotImplementedError" -> {"RuntimeError"}
       [] exc \in {"KeyError", "IndexError"} -> {"LookupError"}
       [] exc = "ZeroDivisionError" -> {"ArithmeticError"}
       [] OTHER -> {})

(***************************************************************************)
(* The heap and the registry.                                              *)
(***************************************************************************)
\* the effects registered in Effect._all_effects
Registered(reg) == UNION Range(reg)

\* the effects of the mapping the caller got from effects()
SnapIds == UNION Range(snap.map)

NoSnap == [taken |-> FALSE, map |-> EmptyMap, ops |-> 0]

\* Objects no longer referenced are freed: what stays is what the registry
\* and the caller's snapshot refer to.
Kept == [i \in (Registered(all_effects) \cup SnapIds) \cap DOMAIN heap |-> heap[i]]

Free(h) == (1..MaxObj) \ DOMAIN h

Rank(i, S) == Cardinality({j \in S : j < i}) + 1
Nth(S, n) == CHOOSE x \in S : Rank(x, S) = n

Put(h, id, e) == [i \in DOMAIN h \cup {id} |-> IF i = id THEN e ELSE h[i]]

\* A mapping that shares the registry's Effect objects (no copy of them).
ShallowCopy(h, reg) == [heap |-> h, map |-> reg]

\* copy.deepcopy of the attributes of an effect: values are copied by
\* value; an Rmodel instance is an object and is copied to a new instance
\* (one per instance and call, by the memo); None and a str are kept
DeepCopyAttrs(e) ==
    [e EXCEPT !.rmodel = IF @ \in DOMAIN RmodelInstances THEN CopyOf(@) ELSE @]

\* effects.py:364-369  copy.deepcopy(Effect._all_effects): a new mapping whose
\* sets hold new objects, one per registered effect, with equal attributes
DeepCopy(h, reg) ==
    LET live == Registered(reg)
        new(i) == Nth(Free(h), Rank(i, live))
        copies == {new(i) : i \in live}
        orig(c) == CHOOSE i \in live : new(i) = c
    IN  [heap |-> [i \in DOMAIN h \cup copies |->
                      IF i \in DOMAIN h THEN h[i] ELSE DeepCopyAttrs(h[orig(i)])],
         map |-> [k \in DOMAIN reg |-> {new(i) : i \in reg[k]}]]

\* the Rmodel instances there are while a caller holds the effects S of a
\* mapping effects() returned: those of the module, and the copies that the
\* effects of S refer to, with the attributes of the instance copied
Instances(rm, h, S) ==
    LET copies == {x \in {h[i].rmodel : i \in S} :
                      \E r \in DOMAIN RmodelInstances : x = CopyOf(r)}
    IN  [x \in DOMAIN RmodelInstances \cup copies |-> rm[OriginalOf(x)]]

\* effects.py:364-369  effects()
effects(h, reg) == DeepCopy(h, reg)

Last(op, exc, id, via, attr, named, ret) ==
    [op |-> op, exc |-> exc, id |-> id, via |-> via, attr |-> attr,
     named |-> named, ret |-> ret]

NoInput == [k |-> NONE, v |-> NONE, applied |-> TRUE, kwargs |-> <<>>]

\* effects.py:174-188: the activation of Effect.__init__: where it is, the
\* keywords not yet popped, later_pairs, and the attributes assigned so far
Frame(pc, kwargs, later_pairs, assigned) ==
    [pc |-> pc, kwargs |-> kwargs, later_pairs |-> later_pairs,
     assigned |-> assigned]

\* no __init__ is under way
NoCall == Frame("-", <<>>, <<>>, <<>>)

\* a logger: its handlers, in the order they were added, and its level
Logger(handlers, level) == [handlers |-> handlers, level |-> level]

\* common.py:150 and the logging module as imported: the flag is False, no
\* logger has a handler, the root logger is at WARNING and FCDR_HIRS is
\* not set
LoggingAtImport ==
    [_root_logger_set |-> FALSE, root |-> Logger(<<>>, "WARNING"),
     FCDR_HIRS |-> Logger(<<>>, "NOTSET"), package_logger |-> TRUE,
     warned |-> 0]

\* the log levels given: two the logging module knows and a name it does
\* not, which Logger.setLevel rejects
Levels == {"INFO", "DEBUG", "verbose"}
KnownLevels == {"INFO", "DEBUG"}

\* the file names given: None, a file that can be opened for appending and
\* one in a directory that does not exist
Filenames == {NONE, "fcdr.log", "/nonexistent/fcdr.log"}

\* common.py:184-185
LogFormat == "%(levelname)-8s %(name)s %(asctime)s %(module)s.%(funcName)s:%(lineno)s: %(message)s"

\* common.py:179-182: the handler, without its formatter
Handler(filename) ==
    IF filename # NONE                             \* if filename:
    THEN [exc |-> IF filename = "fcdr.log" THEN NoExc ELSE "FileNotFoundError",
          kind |-> "FileHandler", to |-> filename, formatter |-> NONE]
    ELSE [exc |-> NoExc, kind |-> "StreamHandler", to |-> "sys.stderr",
          formatter |-> NONE]

\* common.py:178: logging.getLogger(__name__).parent is the logger FCDR_HIRS
\* if a logger of that name was created, and the root logger if not
ParentOfModuleLogger(lg) == IF lg.package_logger THEN "FCDR_HIRS" ELSE "root"

\* common.py:151-186  set_logger
set_logger(lg, level, filename, root) ==
    IF root /\ lg._root_logger_set
    THEN Answer(NoExc, [lg EXCEPT !.warned = @ + 1])   \* warnings.warn; return
    ELSE LET marked == [lg EXCEPT !._root_logger_set = root \/ @]
             which == IF root THEN "root" ELSE ParentOfModuleLogger(lg)
             handler == Handler(filename)
         IN  IF handler.exc # NoExc THEN Answer(handler.exc, marked)
             ELSE IF level \notin KnownLevels     \* logger.setLevel(level)
             THEN Answer("ValueError", marked)
             ELSE Answer(NoExc,
                    [marked EXCEPT
                       ![which] = Logger(
                          Append(@.handlers,
                                 [kind |-> handler.kind, to |-> handler.to,
                                  formatter |-> LogFormat]),
                          level)])

(***************************************************************************)
(* Inputs of the registry specification.                                   *)
(***************************************************************************)
Pair(k, v) == [k |-> k, v |-> v]

gaussian4 == [a \in Axes |-> IF a = 2 THEN "gaussian" ELSE "rectangular_absolute"]
text4 == [a \in Axes |-> IF a = 3 THEN "wide" ELSE "inf"]
number01 == MagnitudeValue(FALSE, NONE, <<>>, NONE, NONE)

\* The values the specifications give to each keyword: kwargs is the record
\* of the values, of which a call passes the keys it names.
ParameterValues == Symbols \cup {UNHASHABLE}
CorrelationTypeValues == {TupleValue(FALSE, random4), TupleValue(TRUE, gaussian4)}
InputKeys == {"parameter", "correlation_type", "correlation_scale",
              "magnitude", "bogus"}
AssignKeys == InputKeys \ {"magnitude"}

KwValues(n, p, ct) ==
    [name |-> n, parameter |-> p, correlation_type |-> ct,
     correlation_scale |-> TupleValue(FALSE, text4), magnitude |-> number01,
     bogus |-> "x"]

\* the keywords of a call, at most n of the keys K, in the order given
KeyOrders(K, n) ==
    {s \in UNION {[1..m -> K] : m \in 0..n} :
        \A i, j \in DOMAIN s : i # j => s[i] # s[j]}

\* the values to try for a keyword: those of S when the call names it
ValuesFor(k, named, S) == IF k \in named THEN S ELSE {CHOOSE x \in S : TRUE}

KwargsOf(order, values) == [i \in DOMAIN order |-> Pair(order[i], values[order[i]])]

(***************************************************************************)
(* Actions.                                                                *)
(***************************************************************************)
Init ==
    /\ heap = EmptyMap
    /\ all_effects = EmptyMap
    /\ snap = NoSnap
    /\ last = Last("import", NoExc, 0, "-", NONE, NONE, "-")
    /\ inp = NoInput
    /\ rmodels = RmodelInstances
    /\ call = NoCall
    /\ logging = LoggingAtImport

\* e = Effect(**kwargs)
Construct(kwargs) ==
    /\ Cardinality(Registered(all_effects)) < MaxEff
    /\ Free(Kept) # {}
    /\ LET id == Min(Free(Kept))
           r == EffectInit(all_effects, kwargs, id)
       IN  /\ heap' = Put(Kept, id, r.obj)
           /\ all_effects' = r.reg
           /\ last' = Last("Effect", r.exc, id, "new", NONE, NONE, "-")
    /\ UNCHANGED <<snap, inp, rmodels, call, logging>>

\* setattr(e, k, v) on a registered effect (via = "live") or on an effect
\* of the mapping effects() returned (via = "snap")
SetAttribute(via, id, p) ==
    /\ id \in (IF via = "live" THEN Registered(all_effects) ELSE SnapIds)
    /\ via = "snap" => snap.ops < MaxSnapOps
    /\ LET r == SetAttr(heap[id], p.k, p.v)
       IN  /\ heap' = [Kept EXCEPT ![id] = r.obj]
           /\ last' = Last("setattr", r.exc, id, via, p.k, r.named, "-")
    /\ snap' = IF via = "snap" THEN [snap EXCEPT !.ops = @ + 1] ELSE snap
    /\ UNCHANGED <<all_effects, rmodels, call, logging>>

Assign(via, id, p) ==
    /\ SetAttribute(via, id, p)
    /\ UNCHANGED inp

\* e.is_independent()
QueryIndependent(id) ==
    /\ id \in Registered(all_effects)
    /\ heap' = Kept
    /\ last' = Last("is_independent", NoExc, id, "live", NONE, NONE,
                    IF is_independent(heap[id]) THEN "True" ELSE "False")
    /\ UNCHANGED <<all_effects, snap, inp, rmodels, call, logging>>

\* e.is_common()
QueryCommon(id) ==
    /\ id \in Registered(all_effects)
    /\ heap' = Kept
    /\ LET r == is_common(heap[id])
       IN  last' = Last("is_common", r.exc, id, "live", NONE, NONE, r.ret)
    /\ UNCHANGED <<all_effects, snap, inp, rmodels, call, logging>>

\* e.is_structured()
QueryStructured(id) ==
    /\ id \in Registered(all_effects)
    /\ heap' = Kept
    /\ LET r == is_structured(heap[id])
       IN  last' = Last("is_structured", r.exc, id, "live", NONE, NONE, r.ret)
    /\ UNCHANGED <<all_effects, snap, inp, rmodels, call, logging>>

\* effects(): keep says whether the caller keeps the mapping returned
CallEffects(keep) ==
    /\ LET base == [i \in Registered(all_effects) |-> heap[i]]
           r == effects(base, all_effects)
       IN  /\ Cardinality(Free(base)) >= Cardinality(DOMAIN base)
           /\ heap' = IF keep THEN r.heap
                      ELSE [i \in DOMAIN base |-> r.heap[i]]
           /\ snap' = IF keep THEN [taken |-> TRUE, map |-> r.map, ops |-> 0]
                      ELSE NoSnap
           /\ rmodels' = Instances(rmodels, r.heap,
                                   IF keep THEN UNION Range(r.map) ELSE {})
    /\ last' = Last("effects", NoExc, 0, "-", NONE, NONE, "-")
    /\ UNCHANGED <<all_effects, inp, call, logging>>

\* del snapshot[k]
SnapDelKey(k) ==
    /\ snap.taken /\ k \in DOMAIN snap.map /\ snap.ops < MaxSnapOps
    /\ snap' = [snap EXCEPT !.ops = @ + 1,
                    !.map = [j \in DOMAIN snap.map \ {k} |-> snap.map[j]]]
    /\ heap' = heap
    /\ last' = Last("del key", NoExc, 0, "snap", NONE, NONE, "-")
    /\ UNCHANGED <<all_effects, inp, rmodels, call, logging>>

\* snapshot[k] = set()
SnapSetKey(k) ==
    /\ snap.taken /\ snap.ops < MaxSnapOps
    /\ snap' = [snap EXCEPT !.ops = @ + 1,
                    !.map = [j \in DOMAIN snap.map \cup {k} |->
                                IF j = k THEN {} ELSE snap.map[j]]]
    /\ heap' = heap
    /\ last' = Last("set key", NoExc, 0, "snap", NONE, NONE, "-")
    /\ UNCHANGED <<all_effects, inp, rmodels, call, logging>>

\* snapshot[k].discard(e)
SnapDiscard(k, id) ==
    /\ snap.taken /\ k \in DOMAIN snap.map /\ id \in snap.map[k]
    /\ snap.ops < MaxSnapOps
    /\ snap' = [snap EXCEPT !.ops = @ + 1, !.map[k] = @ \ {id}]
    /\ heap' = heap
    /\ last' = Last("discard", NoExc, id, "snap", NONE, NONE, "-")
    /\ UNCHANGED <<all_effects, inp, rmodels, call, logging>>

\* snapshot[k].add(e), e an effect of the snapshot
SnapAdd(k, id) ==
    /\ snap.taken /\ k \in DOMAIN snap.map /\ id \in SnapIds \ snap.map[k]
    /\ snap.ops < MaxSnapOps
    /\ snap' = [snap EXCEPT !.ops = @ + 1, !.map[k] = @ \cup {id}]
    /\ heap' = heap
    /\ last' = Last("add", NoExc, id, "snap", NONE, NONE, "-")
    /\ UNCHANGED <<all_effects, inp, rmodels, call, logging>>

Keys == Symbols \cup {NONE}

(***************************************************************************)
(* The registry: constructions, assignments to registered effects and      *)
(* queries, in any order.                                                  *)
(***************************************************************************)
Next ==
    \/ \E order \in KeyOrders(InputKeys, MaxKw) :
          \E p \in ValuesFor("parameter", Range(order), ParameterValues),
             ct \in ValuesFor("correlation_type", Range(order), CorrelationTypeValues) :
                Construct(KwargsOf(order, KwValues(NONE, p, ct)))
    \/ \E id \in 1..MaxObj, k \in AssignKeys :
          \E p \in ValuesFor("parameter", {k}, Symbols),
             ct \in ValuesFor("correlation_type", {k}, CorrelationTypeValues) :
                Assign("live", id, Pair(k, KwValues(NONE, p, ct)[k]))
    \/ \E id \in 1..MaxObj : QueryIndependent(id)
    \/ CallEffects(FALSE)

Spec == Init /\ [][Next]_vars

(***************************************************************************)
(* The snapshot accessor: a caller keeps the mapping effects() returned    *)
(* and changes it, while effects are still being constructed.              *)
(***************************************************************************)
NextSnap ==
    \/ \E order \in KeyOrders({"parameter"}, 1) :
          \E p \in ValuesFor("parameter", Range(order), Symbols) :
                Construct(KwargsOf(order, KwValues(NONE, p, TupleValue(FALSE, random4))))
    \/ CallEffects(TRUE)
    \/ \E id \in 1..MaxObj, k \in AssignKeys \cup {"name"} :
          \E p \in ValuesFor("parameter", {k}, Symbols),
             ct \in ValuesFor("correlation_type", {k}, CorrelationTypeValues) :
                Assign("snap", id, Pair(k, KwValues("O_TPRT", p, ct)[k]))
    \/ \E k \in Keys : SnapDelKey(k)
    \/ \E k \in Keys : SnapSetKey(k)
    \/ \E k \in Keys, id \in 1..MaxObj : SnapDiscard(k, id)
    \/ \E k \in Keys, id \in 1..MaxObj : SnapAdd(k, id)

SpecSnap == Init /\ [][NextSnap]_vars

(***************************************************************************)
(* One assignment to an attribute of a constructed effect, for every       *)
(* value: the effect is built with one of a few keyword bags, `inp` is the *)
(* assignment the caller then makes, and the queries may be called before  *)
(* and after it.                                                           *)
(***************************************************************************)
\* the values a correlation_type slot is given: the vocabulary, a str that
\* is not in it, None and an int
TypeSlotValues == valid_correlation_types \cup {"gaussian", NONE, INT5}

\* the values a correlation_scale slot is given: numbers, an array, a str
\* and None
ScaleSlotValues == Numbers \cup NdArrays \cup {"wide", NONE}

PlainValues == {NONE, "O_TPRT", "C_IWCT", "C_E"}
UnknownAttrs == {"bogus", "magnitud", "Name"}
MagnitudeValues ==
    {MagnitudeValue(FALSE, u, <<>>, NONE, NONE) : u \in {NONE, "K"}}
    \cup {MagnitudeValue(TRUE, NONE, n, "K", l) :
            n \in {<<>>, <<"uncertainty">>}, l \in {NONE, "given"}}

\* effects.py:374-375
calib4 == <<"rectangular_absolute", "rectangular_absolute", "random",
            "triangular_relative">>

\* effects.py:379-387
earth_counts_noise ==
    <<Pair("name", "C_Earth"), Pair("description", "noise on Earth counts"),
      Pair("parameter", "C_E"),
      Pair("correlation_type", TupleValue(FALSE, random4)),
      Pair("unit", "count"), Pair("channel_correlations", "_I"),
      Pair("dimensions", "calibration_cycle"), Pair("rmodel", "rmodel_random")>>

\* effects.py:389-396
space_counts_noise ==
    <<Pair("name", "C_space"), Pair("description", "noise on Space counts"),
      Pair("parameter", "C_s"),
      Pair("correlation_type", TupleValue(FALSE, calib4)),
      Pair("unit", "count"), Pair("channel_correlations", "_I"),
      Pair("dimensions", "calibration_cycle"), Pair("rmodel", "rmodel_calib")>>

\* effects.py:460-469
IWCT_type_b ==
    <<Pair("name", "O_TPRT"), Pair("description", "IWCT type B"),
      Pair("parameter", "O_TPRT"),
      Pair("correlation_type", TupleValue(FALSE, systematic4)),
      Pair("correlation_scale", TupleValue(FALSE, inf4)),
      Pair("unit", "K"), Pair("dimensions", "()"),
      Pair("channel_correlations", "_ones"), Pair("rmodel", "rmodel_calib")>>

\* effects.py:472: UADA(0.1, name="uncertainty", attrs={"units": "K"})
IWCT_type_b_magnitude == MagnitudeValue(TRUE, NONE, <<"uncertainty">>, "K", NONE)

\* effects.py:498-507
nonnonlinearity ==
    <<Pair("name", "O_Re"), Pair("description", "Wrongness of nonlinearity"),
      Pair("parameter", "O_Re"),
      Pair("correlation_type", TupleValue(FALSE, systematic4)),
      Pair("correlation_scale", TupleValue(FALSE, inf4)),
      Pair("unit", "radiance"), Pair("dimensions", "()"),
      Pair("channel_correlations", "blockmat"), Pair("rmodel", "rmodel_common")>>

\* effects.py:520-529
Rself ==
    <<Pair("name", "Rself"), Pair("dimensions", "rself_update_time"),
      Pair("description", "self-emission"), Pair("parameter", "R_selfE"),
      Pair("correlation_type",
           TupleValue(FALSE, <<"rectangular_absolute", "triangular_relative",
                               "triangular_relative", "repeated_rectangles">>)),
      Pair("channel_correlations", "blockmat"), Pair("unit", "radiance"),
      Pair("rmodel", "rmodel_rself")>>

\* effects.py:552-561
unknown_periodic ==
    <<Pair("name", "extraneous_periodic"),
      Pair("description", "extraneous periodic signal"),
      Pair("parameter", "O_Re"), Pair("dimensions", "()"),
      Pair("unit", "radiance"), Pair("rmodel", "rmodel_periodicerror")>>

\* effects.py:398-405
IWCT_counts_noise ==
    <<Pair("name", "C_IWCT"), Pair("description", "noise on IWCT counts"),
      Pair("parameter", "C_IWCT"),
      Pair("correlation_type", TupleValue(FALSE, calib4)),
      Pair("unit", "count"), Pair("channel_correlations", "_I"),
      Pair("dimensions", "calibration_cycle"), Pair("rmodel", "rmodel_calib")>>

\* effects.py:407-415
SRF_calib ==
    <<Pair("name", "SRF_calib"),
      Pair("description", "Spectral response function calibration"),
      Pair("parameter", "nustar"),
      Pair("correlation_type", TupleValue(FALSE, systematic4)),
      Pair("correlation_scale", TupleValue(FALSE, inf4)),
      Pair("unit", "nm"), Pair("dimensions", "()"),
      Pair("channel_correlations", "_I"), Pair("rmodel", "rmodel_common")>>

\* effects.py:426-433
PRT_counts_noise ==
    <<Pair("name", "C_PRT"), Pair("description", "IWCT PRT counts noise"),
      Pair("parameter", "C_PRT"),
      Pair("correlation_type", TupleValue(FALSE, calib4)),
      Pair("unit", "count"), Pair("dimensions", "()"),
      Pair("channel_correlations", "_ones"), Pair("rmodel", "rmodel_calib")>>

\* effects.py:435-444
IWCT_PRT_representation ==
    <<Pair("name", "O_TIWCT"), Pair("description", "IWCT PRT representation"),
      Pair("parameter", "O_TIWCT"),
      Pair("correlation_type", TupleValue(FALSE, systematic4)),
      Pair("correlation_scale", TupleValue(FALSE, inf4)),
      Pair("unit", "K"), Pair("dimensions", "()"),
      Pair("channel_correlations", "_ones"), Pair("rmodel", "rmodel_calib")>>

\* effects.py:446-458
IWCT_PRT_counts_to_temp ==
    <<Pair("name", "d_PRT"),
      Pair("description", "IWCT PRT counts to temperature"),
      Pair("parameter", "d_PRT"),
      Pair("correlation_type", TupleValue(FALSE, systematic4)),
      Pair("correlation_scale", TupleValue(FALSE, inf4)),
      Pair("unit", "counts/K"), Pair("dimensions", "()"),
      Pair("channel_correlations", "_ones"), Pair("rmodel", "rmodel_calib")>>

\* effects.py:481-490
nonlinearity ==
    <<Pair("name", "a_2"), Pair("description", "Nonlinearity"),
      Pair("parameter", "a_2"),
      Pair("correlation_type", TupleValue(FALSE, systematic4)),
      Pair("correlation_scale", TupleValue(FALSE, inf4)),
      Pair("unit", "radiance/count**2"), Pair("dimensions", "()"),
      Pair("channel_correlations", "blockmat"), Pair("rmodel", "rmodel_common")>>

\* effects.py:491-496: UADA(3e-20, name="uncertainty", attrs={"units": ...})
nonlinearity_magnitude ==
    MagnitudeValue(TRUE, NONE, <<"uncertainty">>, "radiance/count**2", NONE)

\* effects.py:509-518
Earthshine ==
    <<Pair("name", "Earthshine"), Pair("description", "Earthshine"),
      Pair("parameter", "R_refl"),
      Pair("correlation_type",
           TupleValue(FALSE, <<"rectangular_absolute", "rectangular_absolute",
                               "repeated_rectangles", "triangular_relative">>)),
      Pair("channel_correlations", "blockmat"), Pair("dimensions", "()"),
      Pair("unit", "radiance"), Pair("rmodel", "rmodel_calib")>>

\* effects.py:531-539: parameter, correlation_type and unit are Rself's
Rselfparams ==
    <<Pair("name", "Rselfparams"),
      Pair("description", "self-emission parameters"),
      Pair("parameter", "R_selfE"),
      Pair("correlation_type",
           TupleValue(TRUE, <<"rectangular_absolute", "triangular_relative",
                              "triangular_relative", "repeated_rectangles">>)),
      Pair("channel_correlations", "blockmat"), Pair("dimensions", "()"),
      Pair("unit", "radiance"), Pair("rmodel", "rmodel_rself")>>

\* effects.py:541-550
electronics ==
    <<Pair("name", "electronics"),
      Pair("description", "unknown electronics effects"),
      Pair("parameter", "O_Re"),
      Pair("correlation_type", TupleValue(FALSE, systematic4)),
      Pair("correlation_scale", TupleValue(FALSE, inf4)),
      Pair("channel_correlations", "blockmat"), Pair("dimensions", "()"),
      Pair("unit", "radiance"), Pair("rmodel", "rmodel_common")>>

\* effects.py:563-572, 574-583 (whose name is bound to a 1-tuple, the
\* effect being constructed and registered all the same) and 585-594
band_correction(name, description, parameter, unit) ==
    <<Pair("name", name), Pair("description", description),
      Pair("parameter", parameter),
      Pair("correlation_type", TupleValue(FALSE, systematic4)),
      Pair("correlation_scale", TupleValue(FALSE, inf4)),
      Pair("channel_correlations", "_I"), Pair("dimensions", "()"),
      Pair("unit", unit), Pair("rmodel", "rmodel_common")>>

\* the keyword bags the effect is built with
Priors ==
    {<<>>,
     <<Pair("correlation_type", TupleValue(FALSE, random4))>>,
     <<Pair("name", "O_TPRT"), Pair("parameter", "O_Re"),
       Pair("correlation_type", TupleValue(FALSE, systematic4)),
       Pair("correlation_scale", TupleValue(FALSE, inf4))>>}

\* the keyword bags of the effects a magnitude is assigned to
MagnitudePriors ==
    Priors \cup {earth_counts_noise, space_counts_noise, IWCT_counts_noise,
                 IWCT_type_b, nonnonlinearity}

Input(k, v, kwargs) == [k |-> k, v |-> v, applied |-> FALSE, kwargs |-> kwargs]

InitAssign ==
    /\ snap = NoSnap
    /\ rmodels = RmodelInstances
    /\ call = NoCall
    /\ logging = LoggingAtImport
    /\ last = Last("Effect", NoExc, 1, "new", NONE, NONE, "-")
    /\ \/ \E kwargs \in Priors :
             /\ heap = Put(EmptyMap, 1, EffectInit(EmptyMap, kwargs, 1).obj)
             /\ all_effects = EffectInit(EmptyMap, kwargs, 1).reg
             /\ \/ \E typed \in BOOLEAN, vals \in [Axes -> TypeSlotValues] :
                     inp = Input("correlation_type", TupleValue(typed, vals), kwargs)
                \/ \E vals \in [1..3 -> {"random"}] :
                     inp = Input("correlation_type", TupleValue(FALSE, vals), kwargs)
                \/ \E typed \in BOOLEAN, vals \in [Axes -> ScaleSlotValues] :
                     inp = Input("correlation_scale", TupleValue(typed, vals), kwargs)
                \/ \E k \in PlainAttrs \cup UnknownAttrs, v \in PlainValues :
                     inp = Input(k, v, kwargs)
       \/ \E kwargs \in MagnitudePriors :
             /\ heap = Put(EmptyMap, 1, EffectInit(EmptyMap, kwargs, 1).obj)
             /\ all_effects = EffectInit(EmptyMap, kwargs, 1).reg
             /\ \E v \in MagnitudeValues : inp = Input("magnitude", v, kwargs)

\* setattr(e, inp.k, inp.v)
AssignInput ==
    /\ ~inp.applied
    /\ SetAttribute("live", 1, Pair(inp.k, inp.v))
    /\ inp' = [inp EXCEPT !.applied = TRUE]

\* effects.py:203-217, 276-280, 294-298: the getters
magnitude(e) == e._magnitude
correlation_type(e) == e._corr_type
correlation_scale(e) == e._corr_scale

NextAssign ==
    \/ AssignInput
    \/ QueryIndependent(1)
    \/ QueryCommon(1)
    \/ QueryStructured(1)

SpecAssign == InitAssign /\ [][NextAssign]_vars

(***************************************************************************)
(* Assignments one after another: an effect of the module, or one built    *)
(* like them, is assigned up to MaxAssign attributes, magnitude among      *)
(* them, in any order.                                                     *)
(***************************************************************************)
\* the keyword bags of the effect the assignments are made to
RestampPriors ==
    {IWCT_type_b, IWCT_counts_noise,
     <<Pair("name", "O_Re"), Pair("description", "Wrongness of nonlinearity"),
       Pair("parameter", "O_Re")>>}

\* the values assigned, by attribute; "C_E" is a name no encoding table
\* has, [1] a parameter the symbol table has not
RestampValues ==
    [name |-> {"C_IWCT", "C_E"},
     description |-> {"given"},
     parameter |-> {"C_s", UNHASHABLE},
     pdf_shape |-> {"rectangle"},
     channels_affected |-> {"1-12"},
     channel_correlations |-> {"_ones"},
     correlation_type |-> {TupleValue(FALSE, random4)},
     correlation_scale |-> {TupleValue(FALSE, [a \in Axes |-> "1000"])},
     magnitude |-> {MagnitudeValue(FALSE, "K", <<>>, NONE, NONE),
                    IWCT_type_b_magnitude, OwnMagnitude}]

InitRestamp ==
    /\ snap = NoSnap
    /\ rmodels = RmodelInstances
    /\ call = NoCall
    /\ logging = LoggingAtImport
    /\ last = Last("Effect", NoExc, 1, "new", NONE, NONE, "-")
    /\ \E kwargs \in RestampPriors :
          /\ heap = Put(EmptyMap, 1, EffectInit(EmptyMap, kwargs, 1).obj)
          /\ all_effects = EffectInit(EmptyMap, kwargs, 1).reg
          /\ inp = [kwargs |-> kwargs, n |-> 0]

\* setattr(e, k, v), the magnitude the effect holds being a value only
\* once the effect holds one
Reassign(id, k, v) ==
    /\ inp.n < MaxAssign
    /\ (k = "magnitude" /\ v.same) => heap[id]._magnitude.kind = "DataArray"
    /\ SetAttribute("live", id, Pair(k, v))
    /\ inp' = [inp EXCEPT !.n = @ + 1]

NextRestamp ==
    \E k \in DOMAIN RestampValues : \E v \in RestampValues[k] : Reassign(1, k, v)

SpecRestamp == InitRestamp /\ [][NextRestamp]_vars

(***************************************************************************)
(* The logging set-up: a process that imported the package calls           *)
(* set_logger up to MaxCalls times with any arguments.  Whether a logger   *)
(* named FCDR_HIRS was created by then is not decided by common.py.        *)
(***************************************************************************)
\* the arguments of a call
Arguments(level, filename, root, n) ==
    [level |-> level, filename |-> filename, root |-> root, n |-> n]

InitLogger ==
    /\ heap = EmptyMap
    /\ all_effects = EmptyMap
    /\ snap = NoSnap
    /\ rmodels = RmodelInstances
    /\ call = NoCall
    /\ last = Last("import", NoExc, 0, "-", NONE, NONE, "-")
    /\ inp = Arguments(NONE, NONE, FALSE, 0)
    /\ \E created \in BOOLEAN :
          logging = [LoggingAtImport EXCEPT !.package_logger = created]

\* set_logger(level, filename, root)
SetLogger(level, filename, root) ==
    /\ inp.n < MaxCalls
    /\ LET r == set_logger(logging, level, filename, root)
       IN  /\ logging' = r.ret
           /\ last' = Last("set_logger", r.exc, 0, "-", NONE, NONE, "-")
    /\ inp' = Arguments(level, filename, root, inp.n + 1)
    /\ UNCHANGED <<heap, all_effects, snap, rmodels, call>>

NextLogger ==
    \E level \in Levels, filename \in Filenames, root \in BOOLEAN :
        SetLogger(level, filename, root)

SpecLogger == InitLogger /\ [][NextLogger]_vars

(***************************************************************************)
(* The queries on a built catalogue: some effects of the module are        *)
(* registered, a dataset is given, and the queries are called in any       *)
(* order with any sampling.                                                *)
(***************************************************************************)
\* an entry of a catalogue: the keywords of the construction, and the
\* magnitude assigned to the effect afterwards, if one is
Entry(kwargs, late) == [kwargs |-> kwargs, late |-> late]

\* the values assigned to magnitude after a construction: none, that of
\* effects.py:472 and that of effects.py:491
Late == [none |-> <<>>, IWCT_type_b |-> <<IWCT_type_b_magnitude>>,
         nonlinearity |-> <<nonlinearity_magnitude>>]

\* the catalogues the queries are run on: the effects of the module, two
\* by two in the order of the module, and last an effect built without a
\* keyword, which has no rmodel
Catalogues ==
    {<<Entry(earth_counts_noise, Late.none), Entry(space_counts_noise, Late.none)>>,
     <<Entry(IWCT_counts_noise, Late.none), Entry(SRF_calib, Late.none)>>,
     <<Entry(PRT_counts_noise, Late.none),
       Entry(IWCT_PRT_representation, Late.none)>>,
     <<Entry(IWCT_PRT_counts_to_temp, Late.none),
       Entry(nonlinearity, Late.nonlinearity)>>,
     <<Entry(IWCT_type_b, Late.IWCT_type_b), Entry(nonnonlinearity, Late.none)>>,
     <<Entry(Earthshine, Late.none), Entry(Rselfparams, Late.none)>>,
     <<Entry(Rself, Late.none), Entry(unknown_periodic, Late.none)>>,
     <<Entry(electronics, Late.none),
       Entry(band_correction("alpha", "uncertainty in band correction factor alpha (ad-hoc)",
                             "alpha", "1"), Late.none)>>,
     <<Entry(band_correction("beta", "uncertainty in band correction factor beta (ad-hoc)",
                             "beta", "1/K"), Late.none),
       Entry(band_correction("f_eff", "uncertainty in band correction centroid",
                             "fstar", "THz"), Late.none)>>,
     <<Entry(<<>>, Late.none)>>}

\* the module-level statements that build a catalogue, one after another
RECURSIVE Built(_, _, _)
Built(entries, h, reg) ==
    IF entries = <<>> THEN [heap |-> h, reg |-> reg]
    ELSE LET id == Cardinality(DOMAIN h) + 1
             r == EffectInit(reg, Head(entries).kwargs, id)
             e == IF Head(entries).late # <<>>
                  THEN SetAttr(r.obj, "magnitude", Head(entries).late[1]).obj
                  ELSE r.obj
         IN  Built(Tail(entries), Put(h, id, e), r.reg)

\* the coordinate of a time dimension: the times of S, increasing
Times == 1..MaxTime
Coordinate(S) == [i \in 1..Cardinality(S) |-> Nth(S, i)]

Datasets ==
    {Dataset(n_c, n_e, Coordinate(L), Coordinate(C)) :
        n_c \in 1..MaxChan, n_e \in 0..MaxPos,
        L \in {X \in SUBSET Times : Cardinality(X) <= MaxLines},
        C \in SUBSET Times}

Samplings == 0..MaxSampling

\* a catalogue has been built and the dataset ds is at hand
OnCatalogue(ds) ==
    /\ snap = NoSnap
    /\ rmodels = RmodelInstances
    /\ call = NoCall
    /\ logging = LoggingAtImport
    /\ last = Last("import", NoExc, 0, "-", NONE, NONE, "-")
    /\ \E c \in Catalogues :
          /\ heap = Built(c, EmptyMap, EmptyMap).heap
          /\ all_effects = Built(c, EmptyMap, EmptyMap).reg
    /\ inp = [NoInput EXCEPT !.v = ds]

InitQuery ==
    \/ OnCatalogue(Dataset(MaxChan, MaxPos, Coordinate(Times), <<2>>))
    \/ OnCatalogue(EmptyDataset)

\* e.calc_R_eΛlkx(ds, sampling_l, sampling_e)
Calc_R_e(id, sampling_l, sampling_e) ==
    /\ id \in Registered(all_effects)
    /\ LET r == calc_R_eLlkx(heap[id], rmodels, inp.v, sampling_l, sampling_e)
       IN  /\ heap' = [Kept EXCEPT ![id] = r.obj]
           /\ rmodels' = r.rmodels
           /\ last' = Last("calc_R_eLlkx", r.exc, id, "live",
                           <<sampling_l, sampling_e>>, NONE, r.ret)
    /\ UNCHANGED <<all_effects, snap, inp, call, logging>>

\* e.calc_R_lΛekx(ds, sampling_l, sampling_e)
Calc_R_l(id, sampling_l, sampling_e) ==
    /\ id \in Registered(all_effects)
    /\ LET r == calc_R_lLekx(heap[id], rmodels, inp.v, sampling_l, sampling_e)
       IN  /\ heap' = [Kept EXCEPT ![id] = r.obj]
           /\ rmodels' = r.rmodels
           /\ last' = Last("calc_R_lLekx", r.exc, id, "live",
                           <<sampling_l, sampling_e>>, NONE, r.ret)
    /\ UNCHANGED <<all_effects, snap, inp, call, logging>>

\* e.calc_R_cΛpx()
Calc_R_c(id) ==
    /\ id \in Registered(all_effects)
    /\ LET r == calc_R_cLpx(heap[id], rmodels)
       IN  /\ heap' = [Kept EXCEPT ![id] = r.obj]
           /\ rmodels' = r.rmodels
           /\ last' = Last("calc_R_cLpx", r.exc, id, "live", NONE, NONE, r.ret)
    /\ UNCHANGED <<all_effects, snap, inp, call, logging>>

\* e.sensitivity()
QuerySensitivity(id) ==
    /\ id \in Registered(all_effects)
    /\ heap' = Kept
    /\ LET r == Sensitivity(heap[id])
       IN  last' = Last("sensitivity", r.exc, id, "live", NONE, NONE, r.expr)
    /\ UNCHANGED <<all_effects, snap, inp, rmodels, call, logging>>

\* e.magnitude, e.correlation_type, e.correlation_scale
GetAttribute(id, k) ==
    /\ id \in Registered(all_effects)
    /\ k \in PropertyAttrs
    /\ heap' = Kept
    /\ last' = Last("getattr", NoExc, id, "live", k, NONE,
                    CASE k = "magnitude" -> magnitude(heap[id])
                      [] k = "correlation_type" -> correlation_type(heap[id])
                      [] k = "correlation_scale" -> correlation_scale(heap[id]))
    /\ UNCHANGED <<all_effects, snap, inp, rmodels, call, logging>>

NextQuery ==
    \/ \E id \in 1..MaxObj : QueryIndependent(id)
    \/ \E id \in 1..MaxObj : QueryCommon(id)
    \/ \E id \in 1..MaxObj : QueryStructured(id)
    \/ \E id \in 1..MaxObj : QuerySensitivity(id)
    \/ \E id \in 1..MaxObj, k \in PropertyAttrs : GetAttribute(id, k)
    \/ \E id \in 1..MaxObj, sampling_l \in Samplings, sampling_e \in Samplings :
          Calc_R_e(id, sampling_l, sampling_e)
    \/ \E id \in 1..MaxObj, sampling_l \in Samplings, sampling_e \in Samplings :
          Calc_R_l(id, sampling_l, sampling_e)
    \/ \E id \in 1..MaxObj : Calc_R_c(id)
    \/ CallEffects(FALSE)

SpecQuery == InitQuery /\ [][NextQuery]_vars

(***************************************************************************)
(* One call of a matrix method of an effect of a built catalogue, for      *)
(* every dataset and every sampling.                                       *)
(***************************************************************************)
InitMatrix ==
    \/ \E ds \in Datasets : OnCatalogue(ds)
    \/ OnCatalogue(EmptyDataset)

NextMatrix ==
    /\ last.op = "import"
    /\ \/ \E id \in 1..MaxObj, sampling_l \in Samplings, sampling_e \in Samplings :
             Calc_R_e(id, sampling_l, sampling_e)
       \/ \E id \in 1..MaxObj, sampling_l \in Samplings, sampling_e \in Samplings :
             Calc_R_l(id, sampling_l, sampling_e)
       \/ \E id \in 1..MaxObj : Calc_R_c(id)

SpecMatrix == InitMatrix /\ [][NextMatrix]_vars

(***************************************************************************)
(* One construction followed statement by statement: a call of Effect     *)
(* with every bag of at most MaxBag keywords, in every order.              *)
(***************************************************************************)
\* A test that takes magnitude for the only property of the class.
IsPropertyMagnitudeOnly(k) == k = "magnitude"

\* effects.py:178: isinstance(getattr(self.__class__, k), property)
IsProperty(k) == k \in PropertyAttrs

BagKeys == {"name", "description", "parameter", "magnitude",
            "correlation_type", "correlation_scale", "bogus"}
BagTypes == {TupleValue(FALSE, systematic4), TupleValue(TRUE, gaussian4)}

\* the values of the keywords: those of nonnonlinearity (effects.py:498-507)
\* and a magnitude
BagValues(ct) ==
    [name |-> "O_Re", description |-> "Wrongness of nonlinearity",
     parameter |-> "O_Re", magnitude |-> number01, correlation_type |-> ct,
     correlation_scale |-> TupleValue(FALSE, inf4), bogus |-> "x"]

\* Effect(**kwargs) was called on the new object 1 and __init__ begins
InitConstruct ==
    /\ heap = Put(EmptyMap, 1, ClassDefaults)
    /\ all_effects = EmptyMap
    /\ snap = NoSnap
    /\ rmodels = RmodelInstances
    /\ logging = LoggingAtImport
    /\ last = Last("import", NoExc, 0, "-", NONE, NONE, "-")
    /\ \E order \in KeyOrders(BagKeys, MaxBag) :
          \E ct \in ValuesFor("correlation_type", Range(order), BagTypes) :
             /\ call = Frame("running", KwargsOf(order, BagValues(ct)), <<>>, <<>>)
             /\ inp = [NoInput EXCEPT !.kwargs = KwargsOf(order, BagValues(ct))]

\* the activation after setattr(self, k, v) ended in r: on an exception
\* __init__ is left, otherwise k is one more attribute assigned
AfterSetAttr(c, k, r) ==
    IF r.exc # NoExc THEN [c EXCEPT !.pc = "raised"]
    ELSE [c EXCEPT !.assigned = Append(@, k)]

\* effects.py:176-182: one turn of the first loop
PopItem ==
    /\ call.pc = "running" /\ call.kwargs # <<>>
    /\ LET p == call.kwargs[Len(call.kwargs)]
           c == [call EXCEPT !.kwargs = SubSeq(@, 1, Len(@) - 1)]
       IN  IF p.k \notin DeclaredAttrs                \* getattr(self.__class__, k)
           THEN /\ call' = [c EXCEPT !.pc = "raised"]
                /\ last' = Last("getattr", "AttributeError", 1, "new", p.k, p.k, "-")
                /\ heap' = heap
           ELSE IF IsProperty(p.k)
           THEN /\ call' = [c EXCEPT !.later_pairs = Append(@, p)]
                /\ last' = Last("append", NoExc, 1, "new", p.k, NONE, "-")
                /\ heap' = heap
           ELSE LET r == SetAttr(heap[1], p.k, p.v)
                IN  /\ call' = AfterSetAttr(c, p.k, r)
                    /\ last' = Last("setattr", r.exc, 1, "new", p.k, r.named, "-")
                    /\ heap' = [heap EXCEPT ![1] = r.obj]
    /\ UNCHANGED <<all_effects, snap, inp, rmodels, logging>>

\* effects.py:183-185: one turn of the second loop
PopLater ==
    /\ call.pc = "running" /\ call.kwargs = <<>> /\ call.later_pairs # <<>>
    /\ LET p == call.later_pairs[Len(call.later_pairs)]
           c == [call EXCEPT !.later_pairs = SubSeq(@, 1, Len(@) - 1)]
           r == SetAttr(heap[1], p.k, p.v)
       IN  /\ call' = AfterSetAttr(c, p.k, r)
           /\ last' = Last("setattr", r.exc, 1, "new", p.k, r.named, "-")
           /\ heap' = [heap EXCEPT ![1] = r.obj]
    /\ UNCHANGED <<all_effects, snap, inp, rmodels, logging>>

\* effects.py:186-188: the registration, after which __init__ returns
RegisterSelf ==
    /\ call.pc = "running" /\ call.kwargs = <<>> /\ call.later_pairs = <<>>
    /\ IF heap[1].parameter = UNHASHABLE
       THEN /\ call' = [call EXCEPT !.pc = "raised"]
            /\ last' = Last("Effect", "TypeError", 1, "new", NONE, NONE, "-")
            /\ all_effects' = all_effects
       ELSE /\ call' = [call EXCEPT !.pc = "done"]
            /\ last' = Last("Effect", NoExc, 1, "new", NONE, NONE, "-")
            /\ all_effects' = Register(all_effects, heap[1], 1)
    /\ UNCHANGED <<heap, snap, inp, rmodels, logging>>

NextConstruct ==
    \/ PopItem
    \/ PopLater
    \/ RegisterSelf

SpecConstruct == InitConstruct /\ [][NextConstruct]_vars

(***************************************************************************)
(* The strategies of a built catalogue: effects are bound to other Rmodel  *)
(* instances and the matrix methods are called; and effects are bound to   *)
(* other Rmodel instances while a caller takes mappings from effects().    *)
(***************************************************************************)
\* e.rmodel = r, r an instance of the module
Rebind(id, r) ==
    /\ r \in DOMAIN RmodelInstances
    /\ Assign("live", id, Pair("rmodel", r))

NextRebind ==
    \/ \E id \in 1..MaxObj, r \in DOMAIN RmodelInstances : Rebind(id, r)
    \/ \E id \in 1..MaxObj, sampling_l \in Samplings, sampling_e \in Samplings :
          Calc_R_e(id, sampling_l, sampling_e)
    \/ \E id \in 1..MaxObj, sampling_l \in Samplings, sampling_e \in Samplings :
          Calc_R_l(id, sampling_l, sampling_e)

SpecRebind == InitQuery /\ [][NextRebind]_vars

NextShare ==
    \/ \E id \in 1..MaxObj, r \in DOMAIN RmodelInstances : Rebind(id, r)
    \/ \E keep \in BOOLEAN : CallEffects(keep)

SpecShare == InitQuery /\ [][NextShare]_vars

(***************************************************************************)
(* Properties.                                                             *)
(***************************************************************************)
\* the registry and the attributes of the effects registered in it
LiveState == <<all_effects, [i \in Registered(all_effects) |-> heap[i]]>>

\* a mapping by value: per key, the attributes of the effects of its set
ByValue(m, h) == [k \in DOMAIN m |-> {h[i] : i \in m[k]}]

\* C1: effects() returns a snapshot isolated from the registry.  A call of
\* effects() changes neither Effect._all_effects nor a registered effect and
\* returns the keys of the registry with, per key, effects of the same
\* attribute values; and no change made through a returned mapping (a key
\* added or deleted, an effect added to or discarded from a set, an
\* attribute of a returned effect assigned) changes the registry or a
\* registered effect, so that a later call returns what it would have
\* returned without the change.
C1_SnapshotIsolated ==
    [][/\ (last'.op = "effects" \/ last'.via = "snap") => LiveState' = LiveState
       /\ last'.op = "effects" =>
            /\ snap'.taken
            /\ ByValue(snap'.map, heap') = ByValue(all_effects', heap')
            /\ SnapIds' \cap Registered(all_effects') = {}]_vars

\* a caller changed an attribute of an effect of its snapshot, which now
\* differs from the registry
C1_Witness ==
    /\ snap.taken /\ snap.ops = MaxSnapOps
    /\ last.op = "setattr" /\ last.via = "snap" /\ last.exc = NoExc
    /\ Registered(all_effects) # {}
    /\ DOMAIN snap.map = DOMAIN all_effects
    /\ ByValue(snap.map, heap) # ByValue(all_effects, heap)

C3_RegistryOnlyGrows ==
    [][\A k \in DOMAIN all_effects :
          /\ k \in DOMAIN all_effects'
          /\ all_effects[k] \subseteq all_effects'[k]]_vars

\* a registered effect whose parameter was assigned anew stays where it was
C3_Witness ==
    /\ last.op = "setattr" /\ last.attr = "parameter" /\ last.exc = NoExc
    /\ \E k \in DOMAIN all_effects :
          last.id \in all_effects[k] /\ heap[last.id].parameter # k

\* C4: assigning to a name that is not declared at class level fails with
\* an AttributeError and leaves the effect's attributes and the registry as
\* they were; a declared name passes the test, and a declared plain
\* attribute then holds the value assigned.
C4_ClosedAttributes ==
    [][last'.op = "setattr" =>
          /\ last'.attr \notin DeclaredAttrs =>
                /\ last'.exc = "AttributeError" /\ last'.named = last'.attr
                /\ heap' = heap
                /\ all_effects' = all_effects
          /\ last'.attr \in DeclaredAttrs =>
                ~(last'.exc = "AttributeError" /\ last'.named = last'.attr)
          /\ last'.attr \in PlainAttrs =>
                /\ last'.exc = NoExc
                /\ heap'[last'.id][last'.attr] = inp.v]_vars

\* an assignment to a name that is not declared, on a built effect
C4_Witness ==
    /\ inp.applied /\ inp.k = "magnitud"
    /\ last.op = "setattr" /\ last.exc = "AttributeError"
    /\ heap[1].name = "O_TPRT"

\* C5: a failed Effect(**kwargs) reports its error and leaves the registry
\* as it was: the half-built effect is in no set and no key was created.
C5_FailedConstruction ==
    [][(last'.op = "Effect" /\ last'.exc # NoExc) =>
          /\ all_effects' = all_effects
          /\ last'.id \notin Registered(all_effects')]_vars

\* a construction that failed in a setter, after the parameter had been
\* assigned, while an effect was registered under that parameter
C5_Witness ==
    /\ last.op = "Effect" /\ last.exc = "TypeError"
    /\ heap[last.id].parameter = "C_E"
    /\ "C_E" \in DOMAIN all_effects

\* a 4-sequence whose slots are all in the vocabulary
ValidTypes(v) ==
    /\ Len(v.vals) = Len(CorrelationType)
    /\ \A a \in Axes : v.vals[a] \in valid_correlation_types

\* C6: a 4-tuple over the vocabulary, given as a CorrelationType or as a
\* plain sequence, is accepted by correlation_type and read back with the
\* same four values in the same order.
C6_ValidTypeRoundTrip ==
    (inp.applied /\ inp.k = "correlation_type" /\ ValidTypes(inp.v)) =>
        /\ last.op = "setattr" => last.exc = NoExc
        /\ \A a \in Axes : correlation_type(heap[1])[a] = inp.v.vals[a]

\* a plain sequence of four different valid types replaced another tuple
C6_Witness ==
    /\ inp.applied /\ inp.k = "correlation_type" /\ ~inp.v.typed
    /\ inp.v.vals = <<"rectangular_absolute", "triangular_relative",
                      "repeated_truncated_gaussians", "repeated_rectangles">>
    /\ correlation_type(heap[1]) = inp.v.vals
    /\ inp.kwargs # <<>>
    /\ last.op = "setattr"

\* the first slot of a 4-sequence that is not in the vocabulary
FirstInvalid(v) ==
    v.vals[Min({a \in Axes : v.vals[a] \notin valid_correlation_types})]

\* C7: a 4-tuple with a slot outside the vocabulary, wherever the slot is,
\* is rejected by correlation_type with a ValueError naming that value.
C7_InvalidTypeValueError ==
    (/\ inp.applied /\ inp.k = "correlation_type" /\ last.op = "setattr"
     /\ Len(inp.v.vals) = Len(CorrelationType) /\ ~ValidTypes(inp.v)) =>
        /\ last.exc = "ValueError"
        /\ last.named = FirstInvalid(inp.v)

ScaleNeverAssigned ==
    /\ \A i \in DOMAIN inp.kwargs : inp.kwargs[i].k # "correlation_scale"
    /\ ~(inp.applied /\ inp.k = "correlation_scale")

\* C9: a 4-tuple for correlation_scale with a slot that is neither a number
\* nor an array is rejected with a TypeError and the stored scale stays; a
\* 4-tuple of numbers and arrays is stored and read back unchanged; and the
\* scale of an effect that was never given one is (0, 0, 0, 0).
C9_ScaleValidation ==
    /\ [][(/\ last'.op = "setattr" /\ last'.attr = "correlation_scale"
           /\ Len(inp.v.vals) = Len(CorrelationType)) =>
             IF \E a \in Axes : inp.v.vals[a] \notin Numbers \cup NdArrays
             THEN /\ last'.exc = "TypeError"
                  /\ correlation_scale(heap'[1]) = correlation_scale(heap[1])
             ELSE /\ last'.exc = NoExc
                  /\ \A a \in Axes :
                        correlation_scale(heap'[1])[a] = inp.v.vals[a]]_vars
    /\ [](ScaleNeverAssigned => correlation_scale(heap[1]) = Zero4)

\* a scale with a str in one slot was rejected on an effect of infinite scale
C9_Witness ==
    /\ inp.applied /\ inp.k = "correlation_scale" /\ last.op = "setattr"
    /\ inp.v.vals = <<"1000", "ndarray", "wide", "inf">>
    /\ last.exc = "TypeError"
    /\ correlation_scale(heap[1]) = inf4

\* C10: is_independent() is true exactly when the four correlation types are
\* "random", whatever the correlation_scale.
C10_IndependentIffAllRandom ==
    last.op = "is_independent" =>
        (last.ret = "True") = (correlation_type(heap[last.id]) = random4)

\* is_independent() was true for an effect of infinite scale
C10_Witness ==
    /\ last.op = "is_independent" /\ last.ret = "True"
    /\ correlation_scale(heap[last.id]) = inf4
    /\ inp.applied
\* C11: is_common() is true exactly when the four correlation types are
\* "rectangular_absolute" and the four correlation scales are infinite, and
\* false for every other effect, the all-zero default scale included.
C11_CommonIffRectangularInfinite ==
    last.op = "is_common" =>
        /\ last.exc = NoExc
        /\ (last.ret = "True") =
              (/\ correlation_type(heap[last.id]) = systematic4
               /\ correlation_scale(heap[last.id]) = inf4)
        /\ last.ret \in {"True", "False"}

\* C12: is_structured() is the negation of is_independent() or is_common(),
\* for every correlation_type and correlation_scale: each effect is in
\* exactly one of the classes independent, common and structured.
C12_StructuredIsResidual ==
    last.op = "is_structured" =>
        /\ last.exc = NoExc
        /\ is_common(heap[last.id]).exc = NoExc
        /\ (last.ret = "True") =
              ~(is_independent(heap[last.id])
                \/ is_common(heap[last.id]).ret = "True")
        /\ last.ret \in {"True", "False"}

\* the call that was made last: a matrix method of an effect whose rmodel
\* is r, on a dataset that has the dimensions and coordinates read
MatrixCall(op, r) ==
    /\ last.op = op
    /\ heap[last.id].rmodel = r

Sampled == last.attr[1] >= 1 /\ last.attr[2] >= 1

\* the sizes of the dataset and of its subsampled axes
n_c == inp.v.dims.calibrated_channel
n_l == Ceil(inp.v.dims.scanline_earth, last.attr[1])
n_e == Ceil(inp.v.dims.scanpos, last.attr[2])

Identity(R) == \A i \in DOMAIN R.at : R.at[i] = (IF i[3] = i[4] THEN 1 ELSE 0)

\* C13: for the Random model, a dataset of n_c channels, n_l scanlines and
\* n_e scan positions and samplings s_l, s_e >= 1, calc_R_eΛlkx returns an
\* array of shape (n_c, ceil(n_l/s_l), ceil(n_e/s_e), ceil(n_e/s_e)) and
\* calc_R_lΛekx one of shape (n_c, ceil(n_e/s_e), ceil(n_l/s_l),
\* ceil(n_l/s_l)), and every [c, l] (resp. [c, e]) slice is the identity.
C13_RandomIdentity ==
    /\ (MatrixCall("calc_R_eLlkx", "rmodel_random") /\ HasDims(inp.v) /\ Sampled) =>
          /\ last.exc = NoExc
          /\ last.ret.shape = <<n_c, n_l, n_e, n_e>>
          /\ DOMAIN last.ret.at = Index4(<<n_c, n_l, n_e, n_e>>)
          /\ Identity(last.ret)
    /\ (MatrixCall("calc_R_lLekx", "rmodel_random") /\ HasDims(inp.v) /\ Sampled) =>
          /\ last.exc = NoExc
          /\ last.ret.shape = <<n_c, n_e, n_l, n_l>>
          /\ DOMAIN last.ret.at = Index4(<<n_c, n_e, n_l, n_l>>)
          /\ Identity(last.ret)

\* three scanlines of two positions sampled by two along the scanlines
C13_Witness ==
    /\ MatrixCall("calc_R_eLlkx", "rmodel_random") /\ HasDims(inp.v)
    /\ last.attr = <<2, 1>>
    /\ inp.v.dims.scanline_earth = 3 /\ inp.v.dims.scanpos = 2
    /\ last.exc = NoExc
    /\ last.ret.shape = <<n_c, 2, 2, 2>>
    /\ last.ret.at[<<n_c, 2, 1, 2>>] = 0 /\ last.ret.at[<<n_c, 2, 2, 2>>] = 1

\* the calibration cycle of the scanline at row a of the subsampled matrix:
\* the number of calibration_cycle coordinates before the scanline's own
CycleOf(a) ==
    LET l == 1 + (a - 1) * last.attr[1]
    IN  Cardinality({c \in DOMAIN inp.v.coords.calibration_cycle :
            inp.v.coords.calibration_cycle[c] < inp.v.coords.scanline_earth[l]})

\* C14: for the Calib model the entry of calc_R_lΛekx for two scanlines is,
\* in every channel and scan position, 1 if the scanlines are of the same
\* calibration cycle and 0 otherwise, the cycle of a scanline being the
\* number of calibration_cycle coordinates that precede its coordinate; the
\* diagonal is 1 and the matrix symmetric; calc_R_eΛlkx is 1 everywhere.
C14_CalibSameCycle ==
    /\ (MatrixCall("calc_R_lLekx", "rmodel_calib") /\ HasCoords(inp.v) /\ Sampled) =>
          /\ last.exc = NoExc
          /\ last.ret.shape = <<n_c, n_e, n_l, n_l>>
          /\ DOMAIN last.ret.at = Index4(<<n_c, n_e, n_l, n_l>>)
          /\ \A i \in DOMAIN last.ret.at :
                /\ last.ret.at[i] = (IF CycleOf(i[3]) = CycleOf(i[4]) THEN 1 ELSE 0)
                /\ i[3] = i[4] => last.ret.at[i] = 1
                /\ last.ret.at[i] = last.ret.at[<<i[1], i[2], i[4], i[3]>>]
    /\ (MatrixCall("calc_R_eLlkx", "rmodel_calib") /\ HasDims(inp.v) /\ Sampled) =>
          /\ last.exc = NoExc
          /\ last.ret.shape = <<n_c, n_l, n_e, n_e>>
          /\ DOMAIN last.ret.at = Index4(<<n_c, n_l, n_e, n_e>>)
          /\ \A i \in DOMAIN last.ret.at : last.ret.at[i] = 1

\* scanlines at times 1, 2 and 3 with one calibration at time 2: the first
\* two scanlines are of one cycle, the third of the next
C14_Witness ==
    /\ MatrixCall("calc_R_lLekx", "rmodel_calib") /\ HasCoords(inp.v)
    /\ last.attr = <<1, 1>>
    /\ inp.v.coords.scanline_earth = <<1, 2, 3>>
    /\ inp.v.coords.calibration_cycle = <<2>>
    /\ inp.v.dims.scanpos = 2
    /\ last.exc = NoExc
    /\ last.ret.at[<<1, 2, 1, 2>>] = 1 /\ last.ret.at[<<1, 2, 2, 3>>] = 0

\* C15: for the Common model calc_R_eΛlkx and calc_R_lΛekx raise the same
\* ValueError and return nothing, for every dataset, the empty one
\* included, and every sampling.
C15_CommonRejects ==
    (last.op \in {"calc_R_eLlkx", "calc_R_lLekx"}
     /\ heap[last.id].rmodel = "rmodel_common") =>
        /\ last.exc = "ValueError"
        /\ last.ret = "-"

\* calc_R_lΛekx of the Common model on the empty dataset
C15_Witness ==
    /\ MatrixCall("calc_R_lLekx", "rmodel_common")
    /\ DOMAIN inp.v.dims = {}
    /\ last.exc = "ValueError"

\* the error of the Common model
CommonError == RModelCommon_calc_R_eLlkx(NoAttrs, inp.v, 1, 1).exc

\* C16: calc_R_eΛlkx and calc_R_lΛekx of the PeriodicError and RSelf
\* models, and calc_R_cΛpx of an effect of any rmodel, raise
\* NotImplementedError for every input, and neither that error nor the
\* error of the Common model is an instance of the other's class.
C16_NotImplementedDistinct ==
    (\/ /\ last.op \in {"calc_R_eLlkx", "calc_R_lLekx"}
        /\ heap[last.id].rmodel \in {"rmodel_periodicerror", "rmodel_rself"}
     \/ last.op = "calc_R_cLpx") =>
        /\ last.exc = "NotImplementedError"
        /\ last.exc # CommonError
        /\ CommonError \notin Bases(last.exc)
        /\ last.exc \notin Bases(CommonError)

\* calc_R_cΛpx of an effect whose rmodel is the Common model
C16_Witness ==
    /\ MatrixCall("calc_R_cLpx", "rmodel_common")
    /\ last.exc = "NotImplementedError"

\* C20: on a built catalogue no query changes the registry, an attribute
\* of a registered effect or an attribute of an Rmodel instance:
\* is_independent, is_common, is_structured, sensitivity, the getters of
\* magnitude, correlation_type and correlation_scale, calc_R_eΛlkx,
\* calc_R_lΛekx and effects(), in any order.
C20_QueriesChangeNothing ==
    [][/\ LiveState' = LiveState
       /\ rmodels' = rmodels]_vars

\* the Calib model returned a matrix for an effect that holds a magnitude,
\* after another query
C20_Witness ==
    /\ MatrixCall("calc_R_lLekx", "rmodel_calib")
    /\ last.exc = NoExc
    /\ magnitude(heap[last.id]).kind = "DataArray"
    /\ last.attr = <<2, 2>>

\* the assignment inp, of a magnitude, is the call that was made last
MagnitudeAssigned ==
    /\ inp.applied /\ inp.k = "magnitude"
    /\ last.op = "setattr" /\ last.attr = "magnitude"

\* what the setter stamps whatever the array given carried
StampedFromEffect(e, m) ==
    /\ m.kind = "DataArray"
    /\ m.short_name = e.name
    /\ m.parameter = Str(e.parameter)
    /\ m.pdf_shape = e.pdf_shape
    /\ m.channels_affected = e.channels_affected
    /\ \A a \in Axes :
          /\ m.correlation_type[a] = correlation_type(e)[a]
          /\ m.correlation_scale[a] = correlation_scale(e)[a]
    /\ m.channel_correlations = e.channel_correlations
    /\ Sensitivity(e).exc = NoExc
    /\ m.sensitivity_coefficient = StrExpr(Sensitivity(e).expr)
    /\ m.WARNING = WARNING

\* C17 as stated: right after a successful assignment to magnitude, of a
\* number, a unit-carrying value or a labelled array with attributes of
\* its own, the attributes of the stored array equal the effect's
\* description (long_name), name, str(parameter), pdf_shape,
\* channels_affected, correlation types and scales, channel_correlations,
\* str(sensitivity()) and the warning text.
C17_StampMatchesEffect ==
    (MagnitudeAssigned /\ last.exc = NoExc) =>
        /\ StampedFromEffect(heap[1], magnitude(heap[1]))
        /\ magnitude(heap[1]).long_name = heap[1].description

\* C17 amended: as above, except that long_name is the effect's
\* description only if the array given carried no long_name; a long_name
\* it carried is kept.
C17_StampKeepsLongName ==
    (MagnitudeAssigned /\ last.exc = NoExc) =>
        /\ StampedFromEffect(heap[1], magnitude(heap[1]))
        /\ magnitude(heap[1]).long_name =
              (IF inp.v.isDA /\ inp.v.long_name # NONE THEN inp.v.long_name
               ELSE heap[1].description)

\* a labelled array with a long_name of its own was stored and stamped on
\* an effect of infinite scale
C17_Witness ==
    /\ MagnitudeAssigned /\ last.exc = NoExc
    /\ inp.v.isDA /\ inp.v.long_name = "given"
    /\ magnitude(heap[1]).long_name = "given"
    /\ heap[1].description = "Wrongness of nonlinearity"
    /\ magnitude(heap[1]).short_name = "O_Re"
    /\ magnitude(heap[1]).correlation_scale = inf4
    /\ magnitude(heap[1]).sensitivity_coefficient = <<"d", "R_e", "/d", "O_Re">>

\* the effect has a name and a parameter of the measurement equation
NamedEffect(e) == IsStr(e.name) /\ e.parameter \in meq_symbols

\* no magnitude was given to the constructor and none was assigned
MagnitudeNeverAssigned ==
    /\ \A i \in DOMAIN inp.kwargs : inp.kwargs[i].k # "magnitude"
    /\ ~(inp.applied /\ inp.k = "magnitude")

\* C18: assigning a plain number without a unit to magnitude stores a
\* labelled array without units whose name is "u_" + the effect's name; an
\* array given with a name keeps it; and the magnitude of an effect that
\* was never assigned one is None.
C18_PlainNumberStored ==
    /\ (MagnitudeAssigned /\ NamedEffect(heap[1]) /\ ~inp.v.isDA /\ inp.v.u = NONE) =>
          /\ last.exc = NoExc
          /\ magnitude(heap[1]).kind = "DataArray"
          /\ magnitude(heap[1]).units = NONE
          /\ magnitude(heap[1]).name = <<"u_", heap[1].name>>
    /\ (MagnitudeAssigned /\ last.exc = NoExc /\ inp.v.isDA /\ inp.v.name # <<>>) =>
          magnitude(heap[1]).name = inp.v.name
    /\ MagnitudeNeverAssigned => magnitude(heap[1]) = NoMagnitude

\* C19: assigning magnitude on an effect whose name is in neither encoding
\* table raises nothing, whatever the name: no encoding is merged and the
\* magnitude is stored and stamped.
C19_MissingEncodingTolerated ==
    (/\ MagnitudeAssigned /\ NamedEffect(heap[1])
     /\ heap[1].name \notin FCDR_data_vars_props \cup FCDR_uncertainty_encodings) =>
        /\ last.exc = NoExc
        /\ magnitude(heap[1]).encoding = {}
        /\ StampedFromEffect(heap[1], magnitude(heap[1]))

\* the keywords the construction was given
Given == {inp.kwargs[i].k : i \in DOMAIN inp.kwargs}

\* C21: during the construction of an Effect, for every order of the keywords, no
\* property (magnitude, correlation_type, correlation_scale) is assigned
\* before every plain attribute given has been assigned, no plain attribute
\* is assigned after a property, and the effect is in the registry only
\* once every keyword of both groups has been applied.
C21_PlainBeforeProperties ==
    /\ \A j \in DOMAIN call.assigned :
          call.assigned[j] \in PropertyAttrs =>
             /\ Given \cap PlainAttrs \subseteq
                   {call.assigned[i] : i \in 1..(j - 1)}
             /\ \A i \in j..Len(call.assigned) :
                   call.assigned[i] \in PropertyAttrs
    /\ 1 \in Registered(all_effects) =>
          /\ call.pc = "done"
          /\ Range(call.assigned) = Given
          /\ Len(call.assigned) = Len(inp.kwargs)

\* a construction that was given a property first and last and plain
\* attributes in between has registered the effect
C21_Witness ==
    /\ call.pc = "done" /\ 1 \in Registered(all_effects)
    /\ Len(inp.kwargs) = MaxBag
    /\ inp.kwargs[1].k = "magnitude"
    /\ inp.kwargs[2].k \in PlainAttrs /\ inp.kwargs[4].k \in PlainAttrs
    /\ inp.kwargs[Len(inp.kwargs)].k = "correlation_type"
    /\ Len(call.assigned) = MaxBag

\* C26: when magnitude is passed to the constructor together with
\* correlation_type and correlation_scale, then once the construction has
\* finished the correlation types and scales stamped on the magnitude are
\* those of the effect, for every order of the three keywords.
C26_ConstructedMagnitudeStamped ==
    (call.pc = "done" /\ PropertyAttrs \subseteq Given) =>
        /\ magnitude(heap[1]).kind = "DataArray"
        /\ \A a \in Axes :
              /\ magnitude(heap[1]).correlation_type[a] = correlation_type(heap[1])[a]
              /\ magnitude(heap[1]).correlation_scale[a] = correlation_scale(heap[1])[a]

\* the effects there are that are bound to an Rmodel instance
Bound == {i \in DOMAIN heap : heap[i].rmodel \in DOMAIN rmodels}

\* C22: there is one instance of each Rmodel variant: two effects bound to
\* the same variant, of the live catalogue or of a mapping that effects()
\* returned, refer to the same instance, and no instance exists besides
\* those of the module.
C22_OneInstancePerVariant ==
    /\ \A i, j \in Bound :
          OriginalOf(heap[i].rmodel) = OriginalOf(heap[j].rmodel) =>
             heap[i].rmodel = heap[j].rmodel
    /\ DOMAIN rmodels = DOMAIN RmodelInstances

\* what the method op of the Rmodel instance the effect is bound to gives
\* for the arguments of the call made last
OfRmodel(op, id) ==
    IF op = "calc_R_eLlkx"
    THEN Rmodel_calc_R_eLlkx(heap[id].rmodel, rmodels[heap[id].rmodel], inp.v,
                             last.attr[1], last.attr[2])
    ELSE Rmodel_calc_R_lLekx(heap[id].rmodel, rmodels[heap[id].rmodel], inp.v,
                             last.attr[1], last.attr[2])

\* C23: calc_R_eΛlkx and calc_R_lΛekx of an effect delegate: for every
\* effect bound to an Rmodel, every dataset and every pair of samplings the
\* call returns what the same method of the bound rmodel returns for the
\* same arguments and raises what it raises, also after the effect was
\* bound to another rmodel.
C23_MatrixMethodsDelegate ==
    (last.op \in {"calc_R_eLlkx", "calc_R_lLekx"} /\ last.id \in Bound) =>
        /\ last.exc = OfRmodel(last.op, last.id).exc
        /\ last.ret = OfRmodel(last.op, last.id).ret

\* earth_counts_noise, built with the Random model, was bound to the Calib
\* model and calc_R_lΛekx then gave the matrix of calibration cycles
C23_Witness ==
    /\ MatrixCall("calc_R_lLekx", "rmodel_calib")
    /\ heap[last.id].name = "C_Earth"
    /\ last.attr = <<1, 2>>
    /\ last.exc = NoExc
    /\ last.ret.shape = <<MaxChan, 1, MaxTime, MaxTime>>
    /\ last.ret.at[<<1, 1, 1, 2>>] = 1 /\ last.ret.at[<<1, 1, 1, 3>>] = 0

\* the matrix of the Calib model for every scanline and scan position
Unsampled == RModelCalib_calc_R_lLekx(NoAttrs, inp.v, 1, 1).ret

\* the position in the dataset of the a-th of the positions kept by a
\* sampling s
Kept_at(a, s) == 1 + (a - 1) * s

\* C24: the Calib model subsamples by stride: for samplings s_l, s_e >= 1
\* calc_R_lΛekx has the shape (n_c, ceil(n_e/s_e), ceil(n_l/s_l),
\* ceil(n_l/s_l)), its entry for two kept scanlines is the entry of the
\* matrix without subsampling for those two scanlines, whatever the
\* scanlines skipped, and its shape is that of the Random model for the
\* same dataset and samplings.
C24_CalibSubsamplesByStride ==
    (MatrixCall("calc_R_lLekx", "rmodel_calib") /\ HasCoords(inp.v) /\ Sampled) =>
        /\ last.exc = NoExc
        /\ last.ret.shape = <<n_c, n_e, n_l, n_l>>
        /\ DOMAIN last.ret.at = Index4(last.ret.shape)
        /\ \A i \in DOMAIN last.ret.at :
              last.ret.at[i] =
                 Unsampled.at[<<i[1], Kept_at(i[2], last.attr[2]),
                                Kept_at(i[3], last.attr[1]),
                                Kept_at(i[4], last.attr[1])>>]
        /\ last.ret.shape =
              RModelRandom_calc_R_lLekx(NoAttrs, inp.v, last.attr[1],
                                        last.attr[2]).ret.shape

\* scanlines at times 1, 2 and 3 with a calibration at time 1, every second
\* scanline kept: the first and the third are of different cycles, and the
\* second, which is of the cycle of the third, is skipped
C24_Witness ==
    /\ MatrixCall("calc_R_lLekx", "rmodel_calib") /\ HasCoords(inp.v)
    /\ last.attr = <<2, 1>>
    /\ inp.v.coords.scanline_earth = <<1, 2, 3>>
    /\ inp.v.coords.calibration_cycle = <<1>>
    /\ inp.v.dims.scanpos = 2
    /\ last.exc = NoExc
    /\ last.ret.shape = <<n_c, 2, 2, 2>>
    /\ last.ret.at[<<1, 1, 1, 2>>] = 0 /\ last.ret.at[<<1, 1, 2, 2>>] = 1
    /\ Unsampled.at[<<1, 1, 2, 3>>] = 1 /\ Unsampled.at[<<1, 1, 1, 2>>] = 0

\* C27 as stated: in every state, after any constructions and assignments,
\* the assignment of a new parameter to a registered effect included, an
\* effect in the set of the registry under the key p has the parameter p,
\* and every key maps to a set that is not empty.
C27_KeyMatchesParameter ==
    \A k \in DOMAIN all_effects :
        /\ all_effects[k] # {}
        /\ \A i \in all_effects[k] : heap[i].parameter = k

\* C27 amended: an effect is in the set under the parameter it had when its
\* construction finished and stays there; its parameter is that key until
\* a new parameter is assigned to it, which leaves it under the old key;
\* and every key maps to a set that is not empty.
C27_KeyIsParameterAtRegistration ==
    /\ [](\A k \in DOMAIN all_effects : all_effects[k] # {})
    /\ [][\A k \in DOMAIN all_effects' : \A i \in all_effects'[k] :
            IF i \notin Registered(all_effects)
            THEN /\ last'.op = "Effect" /\ last'.id = i
                 /\ heap'[i].parameter = k
            ELSE /\ k \in DOMAIN all_effects /\ i \in all_effects[k]
                 /\ heap'[i].parameter # heap[i].parameter =>
                       /\ last'.op = "setattr" /\ last'.attr = "parameter"
                       /\ last'.id = i
                 /\ (heap[i].parameter = k /\ last'.attr # "parameter") =>
                       heap'[i].parameter = k]_vars

\* two effects were constructed with the same parameter and one of them was
\* then assigned another: both are under the key of the construction
C27_Witness ==
    /\ last.op = "setattr" /\ last.attr = "parameter" /\ last.exc = NoExc
    /\ \E k \in DOMAIN all_effects : \E i, j \in all_effects[k] :
          /\ heap[i].parameter = k
          /\ j = last.id /\ heap[j].parameter \in Symbols \ {k}
          /\ heap[j].parameter \notin DOMAIN all_effects

\* the effect is one of the catalogue of the module, all of which have a name
OfCatalogue(i) == i \in Registered(all_effects) /\ heap[i].name # NONE

\* C28: for every effect of the catalogue of the module, is_common() is
\* true exactly when the rmodel of the effect is the Common model, so that
\* calc_R_eΛlkx and calc_R_lΛekx raise the error of the Common model
\* exactly for the effects for which is_common() is true.
C28_CommonIffCommonModel ==
    /\ (last.op = "is_common" /\ OfCatalogue(last.id)) =>
          /\ last.exc = NoExc
          /\ (last.ret = "True") = (heap[last.id].rmodel = "rmodel_common")
    /\ (/\ last.op \in {"calc_R_eLlkx", "calc_R_lLekx"} /\ OfCatalogue(last.id)
        /\ HasCoords(inp.v) /\ Sampled) =>
          (last.exc = CommonError) = (is_common(heap[last.id]).ret = "True")

\* what the magnitude of the effect says of the effect
Stamped(m) ==
    [short_name |-> m.short_name, pdf_shape |-> m.pdf_shape,
     channels_affected |-> m.channels_affected,
     channel_correlations |-> m.channel_correlations,
     correlation_type |-> m.correlation_type,
     correlation_scale |-> m.correlation_scale]

\* what the effect is
Current(e) ==
    [short_name |-> e.name, pdf_shape |-> e.pdf_shape,
     channels_affected |-> e.channels_affected,
     channel_correlations |-> e.channel_correlations,
     correlation_type |-> correlation_type(e),
     correlation_scale |-> correlation_scale(e)]

\* C25: whenever the magnitude of an effect is set, after any sequence of
\* assignments to magnitude, correlation_type, correlation_scale, name,
\* description, pdf_shape, channels_affected and channel_correlations, the
\* metadata stamped on the stored magnitude (the types and scales of the
\* four axes, short_name, pdf_shape, channels_affected,
\* channel_correlations) are the current values of the effect.
C25_StampFollowsEffect ==
    \A i \in Registered(all_effects) :
        magnitude(heap[i]).kind = "DataArray" =>
            Stamped(magnitude(heap[i])) = Current(heap[i])

\* C29: a magnitude assignment that raises changes nothing: the getter
\* returns afterwards what it returned before, unset or not, and the other
\* attributes of the effect and the registry are unchanged.
C29_FailedMagnitudeChangesNothing ==
    [][(last'.op = "setattr" /\ last'.attr = "magnitude" /\ last'.exc # NoExc)
          => /\ heap' = heap
             /\ all_effects' = all_effects]_vars

\* the call that was just made is set_logger with root as given
SetLoggerCalled(root) == last'.op = "set_logger" /\ inp'.root = root

\* C30: the root logger is configured at most once.  Over any sequence of
\* set_logger calls, the first call with root=True attaches one handler to
\* the root logger and sets its level; every later call with root=True
\* only warns and leaves the handlers and the level of the root logger
\* unchanged; a call with root=False never sets the flag.
C30_RootConfiguredOnce ==
    /\ [](Len(logging.root.handlers) <= 1)
    /\ [][
           /\ (SetLoggerCalled(TRUE) /\ ~logging._root_logger_set) =>
               /\ Len(logging'.root.handlers) = Len(logging.root.handlers) + 1
               /\ logging'.root.level = inp'.level
           /\ (SetLoggerCalled(TRUE) /\ logging._root_logger_set) =>
               /\ logging'.warned = logging.warned + 1
               /\ logging'.root = logging.root
           /\ SetLoggerCalled(FALSE) =>
               logging'._root_logger_set = logging._root_logger_set]_vars

====
